---- MODULE Spec2Model ----
(***************************************************************************)
(* routecraft: the graph store (src/src/graph.c) and the A* search engine  *)
(* (src/src/astar.c).                                                      *)
(*                                                                         *)
(* Numbers.  The C code computes in float: coordinates, edge weights, the   *)
(* heuristic weight and the scores of a search are floats, held as their   *)
(* IEEE-754 bit patterns (see "float" below).  The calls of the model pass *)
(* whole numbers, through ToFloat.  Allocation is assumed to succeed.      *)
(***************************************************************************)
EXTENDS Integers, Sequences, FiniteSets, TLC

(***************************************************************************)
(* float.  A float is held as its IEEE-754 single bit pattern read as a    *)
(* whole number: 0.0 is 0, 1.0 is 1065353216 (0x3F800000), 10.0 is         *)
(* 1092616192, sqrtf(200) is 1096959536 and FLT_MAX is 2139095039          *)
(* (0x7F7FFFFF).  A negative float is the negated pattern of its size, so  *)
(* <, <= and = on patterns are <, <= and == on the floats.  The operators  *)
(* below give the pattern the FPU gives (round to nearest, ties to even,   *)
(* subnormals included); a result above FLT_MAX is the pattern of infinity,   *)
(* INF, and the patterns above INF are the NaNs, which compare false with  *)
(* everything (FloatLess).  Not held: -0.0 (taken as 0.0).                 *)
(***************************************************************************)
Abs(v) == IF v < 0 THEN -v ELSE v

Max2(a, b) == IF a > b THEN a ELSE b

\* TwoTo[k + 1] = 2^k
TwoTo == << 1, 2, 4, 8, 16, 32, 64, 128, 256, 512, 1024, 2048, 4096, 8192, 16384,
            32768, 65536, 131072, 262144, 524288, 1048576, 2097152, 4194304,
            8388608, 16777216, 33554432, 67108864, 134217728, 268435456,
            536870912, 1073741824 >>

\* the number of binary digits of n
BitLen(n) ==
    IF n = 0 THEN 0 ELSE CHOOSE k \in 1 .. 31 : TwoTo[k] <= n /\ n \div 2 < TwoTo[k]

\* The pattern of a float of size m * 2^e, m > 0: its mantissa field and exponent.
FloatMant(a) == IF a \div 8388608 = 0 THEN a % 8388608 ELSE 8388608 + (a % 8388608)

FloatExp(a) == IF a \div 8388608 = 0 THEN -149 ELSE (a \div 8388608) - 150

\* The fields of a float of size m * 2^e: a mantissa of 24 digits or more
\* carries into the next exponent, one below 24 digits is subnormal, an
\* exponent past the last one gives infinity.
PackFields(m, e) ==
    IF m < 8388608 THEN m
    ELSE IF e + 150 >= 255 THEN 255 * 8388608
    ELSE (e + 150) * 8388608 + (m - 8388608)

PackCarry(m, e) == IF m = 16777216 THEN PackFields(8388608, e + 1) ELSE PackFields(m, e)

\* s without its k lowest digits (with -k more digits when k is negative)
PackQuot(s, k) ==
    IF k > 30 THEN 0
    ELSE IF k > 0 THEN s \div TwoTo[k + 1]
    ELSE s * TwoTo[1 - k]

\* the k lowest digits of s are more than half of the digit above them, or
\* half of it with that digit odd
PackUp(s, k) ==
    IF k > 31 THEN FALSE
    ELSE IF k = 31 THEN s > TwoTo[31]
    ELSE IF k > 0
    THEN \/ s % TwoTo[k + 1] > TwoTo[k]
         \/ (s % TwoTo[k + 1] = TwoTo[k] /\ (s \div TwoTo[k + 1]) % 2 = 1)
    ELSE FALSE

PackRound(s, e, k) ==
    PackCarry(IF PackUp(s, k) THEN PackQuot(s, k) + 1 ELSE PackQuot(s, k), e + k)

\* The pattern of the float nearest to s * 2^e, s >= 0, ties to even: s is cut
\* to 24 digits, or to fewer where the exponent would fall below the lowest.
\* Where the lowest digit of s stands for digits cut off below it, s has 26
\* digits or more, so that digit is below the rounding position.
FloatPack(s, e) ==
    IF s = 0 THEN 0 ELSE PackRound(s, e, Max2(BitLen(s) - 24, -149 - e))

\* (float)n for a whole number n
ToFloat(n) == IF n < 0 THEN -FloatPack(-n, 0) ELSE FloatPack(n, 0)

\* s shifted right by d digits, the lowest digit kept set when a set digit is lost
ShiftRightJam(s, d) ==
    IF d = 0 THEN s
    ELSE IF d > 30 THEN (IF s = 0 THEN 0 ELSE 1)
    ELSE IF s % TwoTo[d + 1] # 0 /\ (s \div TwoTo[d + 1]) % 2 = 0
         THEN (s \div TwoTo[d + 1]) + 1
         ELSE s \div TwoTo[d + 1]

\* the sum or difference of two aligned mantissas, with the sign of the larger
AddMant(neg, same, m1, m2, e) ==
    IF neg
    THEN -FloatPack(IF same THEN m1 + m2 ELSE m1 - m2, e - 3)
    ELSE FloatPack(IF same THEN m1 + m2 ELSE m1 - m2, e - 3)

\* big + small for Abs(big) >= Abs(small): three more digits are kept of both
\* mantissas and the smaller one is shifted to the exponent of the larger
AddOrdered(big, small) ==
    AddMant(big < 0, (big < 0) = (small < 0),
            8 * FloatMant(Abs(big)),
            ShiftRightJam(8 * FloatMant(Abs(small)),
                          FloatExp(Abs(big)) - FloatExp(Abs(small))),
            FloatExp(Abs(big)))

\* the pattern of infinity (0x7F800000); the patterns above it are NaNs
INF == 2139095040

\* the NaN the FPU gives an operation without a value (0xFFC00000)
NAN == -2143289344

IsNaN(a) == Abs(a) > INF

\* a NaN operand as an operation hands it on: with its quiet bit set
Quiet(a) ==
    IF (Abs(a) \div 4194304) % 2 = 1 THEN a
    ELSE IF a < 0 THEN a - 4194304 ELSE a + 4194304

\* a < b in float: false when either is a NaN
FloatLess(a, b) == a < b /\ Abs(a) <= INF /\ Abs(b) <= INF

\* a NaN whose quiet bit is not set
IsSignaling(a) == IsNaN(a) /\ (Abs(a) \div 4194304) % 2 = 0

\* fmaxf(a, b): the operand that is not a NaN when the other one is a quiet
\* NaN; of two NaNs the first; a signaling NaN is handed on, quiet
FloatMax(a, b) ==
    IF IsNaN(a) /\ IsNaN(b) THEN Quiet(a)
    ELSE IF IsSignaling(a) THEN Quiet(a)
    ELSE IF IsSignaling(b) THEN Quiet(b)
    ELSE IF IsNaN(a) THEN b
    ELSE IF IsNaN(b) THEN a
    ELSE Max2(a, b)

\* a + b in float.  Of two NaN operands the FPU hands on the one the compiler
\* placed first; the first one of the expression is taken here.
FloatAdd(a, b) ==
    IF IsNaN(a) THEN Quiet(a)
    ELSE IF IsNaN(b) THEN Quiet(b)
    ELSE IF Abs(a) = INF THEN (IF b = -a THEN NAN ELSE a)
    ELSE IF Abs(b) = INF THEN b
    ELSE IF a = 0 THEN b
    ELSE IF b = 0 THEN a
    ELSE IF Abs(a) >= Abs(b) THEN AddOrdered(a, b)
    ELSE AddOrdered(b, a)

\* a - b in float
FloatSub(a, b) == IF IsNaN(b) /\ ~IsNaN(a) THEN Quiet(b) ELSE FloatAdd(a, -b)

\* the digits the mantissa of a float is short of 24
NormShift(a) == 24 - BitLen(FloatMant(a))

\* the mantissa of a float brought to 24 digits, and the exponent that goes with it
NormMant(a) == FloatMant(a) * TwoTo[NormShift(a) + 1]

NormExp(a) == FloatExp(a) - NormShift(a)

\* the product hi * 2^24 + low cut to 28 digits, the lowest kept set when a
\* set digit is lost
MulJam(hi, low, e) ==
    FloatPack(IF (low % 1048576) # 0 /\ (low \div 1048576) % 2 = 0
              THEN (16 * hi) + (low \div 1048576) + 1
              ELSE (16 * hi) + (low \div 1048576),
              e + 20)

MulSum(top, low, e) == MulJam(top + (low \div 16777216), low % 16777216, e)

MulParts(top, mid, bot, e) ==
    MulSum(top + (mid \div 4096), ((mid % 4096) * 4096) + bot, e)

\* the 48-digit product of two 24-digit mantissas, from the four 24-digit
\* products of their 12-digit halves
MulMant(ma, mb, e) ==
    MulParts((ma \div 4096) * (mb \div 4096),
             ((ma \div 4096) * (mb % 4096)) + ((ma % 4096) * (mb \div 4096)),
             (ma % 4096) * (mb % 4096),
             e)

\* a * b in float
FloatMul(a, b) ==
    IF IsNaN(a) THEN Quiet(a)
    ELSE IF IsNaN(b) THEN Quiet(b)
    ELSE IF Abs(a) = INF \/ Abs(b) = INF
    THEN (IF a = 0 \/ b = 0 THEN NAN ELSE IF (a < 0) = (b < 0) THEN INF ELSE -INF)
    ELSE IF a = 0 \/ b = 0 THEN 0
    ELSE IF (a < 0) = (b < 0)
    THEN MulMant(NormMant(Abs(a)), NormMant(Abs(b)), NormExp(Abs(a)) + NormExp(Abs(b)))
    ELSE -MulMant(NormMant(Abs(a)), NormMant(Abs(b)), NormExp(Abs(a)) + NormExp(Abs(b)))

\* r or r + 1, the larger one whose square is at most n
IsqrtStep(r, n) == IF (r + 1) * (r + 1) <= n THEN r + 1 ELSE r

RECURSIVE Isqrt(_)
\* the whole part of the square root of n
Isqrt(n) == IF n < 2 THEN n ELSE IsqrtStep(2 * Isqrt(n \div 4), n)

RECURSIVE SqrtBits(_, _, _)
\* The binary digits of a square root, one per call, until root has 24 of
\* them; rem is what the square of root leaves of the argument.  The last
\* digit is rounded to nearest (a square root is never a tie).
SqrtBits(root, rem, e) ==
    IF root >= 8388608
    THEN FloatPack(IF rem > root THEN root + 1 ELSE root, e)
    ELSE IF 4 * root + 1 <= 4 * rem
         THEN SqrtBits(2 * root + 1, 4 * rem - (4 * root + 1), e - 1)
         ELSE SqrtBits(2 * root, 4 * rem, e - 1)

\* the square root of m * 2^e, e even
SqrtFrom(r, m, e) == SqrtBits(r, m - r * r, e \div 2)

SqrtEven(m, e) == SqrtFrom(Isqrt(m), m, e)

\* sqrtf(a)
FloatSqrt(a) ==
    IF IsNaN(a) THEN Quiet(a)
    ELSE IF a < 0 THEN NAN
    ELSE IF a = INF THEN INF
    ELSE IF a = 0 THEN 0
    ELSE IF NormExp(a) % 2 = 0
    THEN SqrtEven(NormMant(a), NormExp(a))
    ELSE SqrtEven(2 * NormMant(a), NormExp(a) - 1)

(***************************************************************************)
(* Capacities.  graph.h sets MAX_NODES = 1000 and MAX_EDGES_PER_NODE = 20; *)
(* the model runs the same code paths with scaled-down capacities.         *)
(***************************************************************************)
MAX_NODES == 4

MAX_EDGES_PER_NODE == 2

\* Largest edge weight a store operation is called with.
MaxWeight == 1

\* Number of store calls in one run.
MaxCalls == 6

NodeSlots == 0 .. (MAX_NODES - 1)

EdgeSlots == 0 .. (MAX_EDGES_PER_NODE - 1)

\* Node ids a caller may pass: every id in range, and one out of range on each side.
IdArgs(G) == -1 .. G.nodeCount

Weights == { ToFloat(w) : w \in 1 .. MaxWeight }

\* Node names and positions the store operations are called with.
Names == { <<"a">> }

Positions == { <<ToFloat(0), ToFloat(0)>> }

(***************************************************************************)
(* graph.h: Node, Edge, Graph; graph_init                                  *)
(***************************************************************************)
\* memset(0) of a Node
ZeroNode == [id |-> 0, name |-> <<>>, x |-> 0, y |-> 0, active |-> FALSE]

\* memset(0) of an Edge
ZeroEdge == [from |-> 0, to |-> 0, weight |-> 0, active |-> FALSE]

graph_init ==
    [ nodeCount  |-> 0,
      nodes      |-> [i \in NodeSlots |-> ZeroNode],
      edges      |-> [i \in NodeSlots |-> [j \in EdgeSlots |-> ZeroEdge]],
      edgeCounts |-> [i \in NodeSlots |-> 0] ]

(***************************************************************************)
(* Queries                                                                 *)
(***************************************************************************)
graph_has_edge(G, from, to) ==
    /\ from >= 0
    /\ from < G.nodeCount
    /\ \E i \in EdgeSlots :
          /\ i < G.edgeCounts[from]
          /\ G.edges[from][i].to = to
          /\ G.edges[from][i].active

RECURSIVE NeighborScan(_, _, _, _, _)
\* the loop of graph_get_neighbors from slot i on, with the ids collected so far
NeighborScan(G, nodeId, maxNeighbors, i, acc) ==
    IF i < G.edgeCounts[nodeId] /\ Len(acc) < maxNeighbors
    THEN LET e == G.edges[nodeId][i]
         IN  IF e.active /\ G.nodes[e.to].active
             THEN NeighborScan(G, nodeId, maxNeighbors, i + 1, Append(acc, e.to))
             ELSE NeighborScan(G, nodeId, maxNeighbors, i + 1, acc)
    ELSE acc

graph_get_neighbors(G, nodeId, maxNeighbors) ==
    IF nodeId < 0 \/ nodeId >= G.nodeCount
    THEN <<>>
    ELSE NeighborScan(G, nodeId, maxNeighbors, 0, <<>>)

(***************************************************************************)
(* Mutations.  Each returns the new graph and the C return value.          *)
(***************************************************************************)
\* Mutant of graph_add_node: the slot of a removed node is taken again.
\* graph.h: a name field holds MAX_NAME_LENGTH characters, the last one the
\* terminator.
MAX_NAME_LENGTH == 128

\* strncpy(node->name, name, MAX_NAME_LENGTH - 1) and the terminator: the
\* name cut to MAX_NAME_LENGTH - 1 characters.
CopyName(name) ==
    IF Len(name) > MAX_NAME_LENGTH - 1
    THEN SubSeq(name, 1, MAX_NAME_LENGTH - 1)
    ELSE name

\* graph_free: the store is initialised again.
graph_free(G) == graph_init

graph_add_node_reuseSlot(G, name, x, y) ==
    LET free == { i \in NodeSlots : i < G.nodeCount /\ ~G.nodes[i].active }
    IN  IF free # {}
        THEN LET id == CHOOSE i \in free : \A k \in free : i <= k
             IN  [ g   |-> [G EXCEPT !.nodes[id] = [id |-> id, name |-> CopyName(name),
                                                     x |-> x, y |-> y, active |-> TRUE]],
                   ret |-> id ]
        ELSE IF G.nodeCount >= MAX_NODES
        THEN [g |-> G, ret |-> -1]
        ELSE LET id == G.nodeCount
             IN  [ g   |-> [G EXCEPT !.nodes[id] = [id |-> id, name |-> CopyName(name),
                                                     x |-> x, y |-> y, active |-> TRUE],
                                      !.nodeCount = id + 1],
                   ret |-> id ]

graph_add_node(G, name, x, y) ==
    IF G.nodeCount >= MAX_NODES
    THEN [g |-> G, ret |-> -1]
    ELSE LET id == G.nodeCount
         IN  [ g   |-> [G EXCEPT !.nodes[id] = [id |-> id, name |-> CopyName(name),
                                                 x |-> x, y |-> y, active |-> TRUE],
                                  !.nodeCount = id + 1],
               ret |-> id ]

\* Mutant of graph_remove_node: the edges other nodes hold to nodeId stay active.
graph_remove_node_ownOnly(G, nodeId) ==
    IF nodeId < 0 \/ nodeId >= G.nodeCount
    THEN [g |-> G, ret |-> FALSE]
    ELSE [ g |-> [G EXCEPT !.nodes[nodeId].active = FALSE,
                           !.edgeCounts[nodeId] = 0],
           ret |-> TRUE ]

graph_remove_node(G, nodeId) ==
    IF nodeId < 0 \/ nodeId >= G.nodeCount
    THEN [g |-> G, ret |-> FALSE]
    ELSE [ g |-> [G EXCEPT
                    !.nodes[nodeId].active = FALSE,
                    !.edgeCounts[nodeId] = 0,
                    !.edges = [i \in NodeSlots |-> [j \in EdgeSlots |->
                                 IF /\ i < G.nodeCount
                                    /\ i # nodeId
                                    /\ j < G.edgeCounts[i]
                                    /\ G.edges[i][j].to = nodeId
                                 THEN [G.edges[i][j] EXCEPT !.active = FALSE]
                                 ELSE G.edges[i][j]]]],
           ret |-> TRUE ]

\* Mutant of graph_add_edge: no check for an edge the pair already has.
graph_add_edge_noDuplicateCheck(G, from, to, weight) ==
    IF \/ from < 0 \/ from >= G.nodeCount
       \/ to < 0 \/ to >= G.nodeCount
    THEN [g |-> G, ret |-> FALSE]
    ELSE IF G.edgeCounts[from] >= MAX_EDGES_PER_NODE
    THEN [g |-> G, ret |-> FALSE]
    ELSE LET idx == G.edgeCounts[from]
         IN  [ g   |-> [G EXCEPT !.edges[from][idx] =
                                     [from |-> from, to |-> to,
                                      weight |-> weight, active |-> TRUE],
                                  !.edgeCounts[from] = idx + 1],
               ret |-> TRUE ]

\* Mutant of graph_add_edge: the slot is written before the duplicate check.
graph_add_edge_earlyWrite(G, from, to, weight) ==
    IF \/ from < 0 \/ from >= G.nodeCount
       \/ to < 0 \/ to >= G.nodeCount
    THEN [g |-> G, ret |-> FALSE]
    ELSE IF G.edgeCounts[from] >= MAX_EDGES_PER_NODE
    THEN [g |-> G, ret |-> FALSE]
    ELSE LET idx == G.edgeCounts[from]
             H   == [G EXCEPT !.edges[from][idx] =
                                  [from |-> from, to |-> to,
                                   weight |-> weight, active |-> TRUE]]
         IN  IF graph_has_edge(G, from, to)
             THEN [g |-> H, ret |-> FALSE]
             ELSE [g |-> [H EXCEPT !.edgeCounts[from] = idx + 1], ret |-> TRUE]

graph_add_edge(G, from, to, weight) ==
    IF \/ from < 0 \/ from >= G.nodeCount
       \/ to < 0 \/ to >= G.nodeCount
    THEN [g |-> G, ret |-> FALSE]
    ELSE IF G.edgeCounts[from] >= MAX_EDGES_PER_NODE
    THEN [g |-> G, ret |-> FALSE]
    ELSE IF graph_has_edge(G, from, to)
    THEN [g |-> G, ret |-> FALSE]
    ELSE LET idx == G.edgeCounts[from]
         IN  [ g   |-> [G EXCEPT !.edges[from][idx] =
                                     [from |-> from, to |-> to,
                                      weight |-> weight, active |-> TRUE],
                                  !.edgeCounts[from] = idx + 1],
               ret |-> TRUE ]

\* Mutant of graph_add_edge_bidirectional: success only when both directions
\* were created.
graph_add_edge_bidirectional_bothNeeded(G, from, to, weight) ==
    LET a == graph_add_edge(G, from, to, weight)
        b == graph_add_edge(a.g, to, from, weight)
    IN  [g |-> b.g, ret |-> (a.ret /\ b.ret)]

graph_add_edge_bidirectional(G, from, to, weight) ==
    LET a == graph_add_edge(G, from, to, weight)
        b == graph_add_edge(a.g, to, from, weight)
    IN  [g |-> b.g, ret |-> (a.ret \/ b.ret)]

\* Slots of `from` the loop of graph_remove_edge stops at: the first active match.
RemoveEdgeHits(G, from, to) ==
    { i \in EdgeSlots : /\ i < G.edgeCounts[from]
                        /\ G.edges[from][i].to = to
                        /\ G.edges[from][i].active }

MinOf(S) == CHOOSE m \in S : \A k \in S : m <= k

\* Mutant of graph_remove_edge: the edge of the reverse direction goes as well.
graph_remove_edge_bothDirections(G, from, to) ==
    IF from < 0 \/ from >= G.nodeCount
    THEN [g |-> G, ret |-> FALSE]
    ELSE IF RemoveEdgeHits(G, from, to) = {}
    THEN [g |-> G, ret |-> FALSE]
    ELSE LET H == [G EXCEPT !.edges[from][MinOf(RemoveEdgeHits(G, from, to))].active = FALSE]
         IN  [ g   |-> IF to >= 0 /\ to < H.nodeCount /\ RemoveEdgeHits(H, to, from) # {}
                       THEN [H EXCEPT !.edges[to][MinOf(RemoveEdgeHits(H, to, from))].active = FALSE]
                       ELSE H,
               ret |-> TRUE ]

graph_remove_edge(G, from, to) ==
    IF from < 0 \/ from >= G.nodeCount
    THEN [g |-> G, ret |-> FALSE]
    ELSE IF RemoveEdgeHits(G, from, to) = {}
    THEN [g |-> G, ret |-> FALSE]
    ELSE [ g   |-> [G EXCEPT !.edges[from][MinOf(RemoveEdgeHits(G, from, to))].active = FALSE],
           ret |-> TRUE ]

(***************************************************************************)
(* graph.c: the lookups.  A name is the sequence of its characters before  *)
(* the terminating NUL.                                                    *)
(***************************************************************************)
\* the lower-case letter of an upper-case one (c += 32), any other character as is
UpperCase == << "A", "B", "C", "D", "E", "F", "G", "H", "I", "J", "K", "L", "M",
               "N", "O", "P", "Q", "R", "S", "T", "U", "V", "W", "X", "Y", "Z" >>

LowerCase == << "a", "b", "c", "d", "e", "f", "g", "h", "i", "j", "k", "l", "m",
               "n", "o", "p", "q", "r", "s", "t", "u", "v", "w", "x", "y", "z" >>

\* lines 104-105: a letter of 'A' .. 'Z' is moved up by 32, to 'a' .. 'z'
Lower(c) ==
    IF \E k \in 1 .. 26 : UpperCase[k] = c
    THEN LowerCase[CHOOSE k \in 1 .. 26 : UpperCase[k] = c]
    ELSE c

\* strcasecmp(a, b) == 0
SameIgnoringCase(a, b) ==
    /\ Len(a) = Len(b)
    /\ \A k \in 1 .. Len(a) : Lower(a[k]) = Lower(b[k])

\* lines 102-109: the inner loop finds name at offset j of haystack
MatchAt(haystack, name, j) ==
    \A k \in 0 .. (Len(name) - 1) : Lower(haystack[j + k + 1]) = Lower(name[k + 1])

\* What a call can end in besides an id or -1: a fault on memory it must not read.
Fault == -2

RECURSIVE PartialMatchScan(_, _, _)
\* lines 93-113: the partial-match loop from node i on, as the set of values
\* the call can return.  For a name shorter than the query, hayLen - nameLen
\* wraps around (size_t) and the offset loop leaves the name: no offset inside
\* the name's buffer matches, and the loop then reads the memory behind it
\* until those bytes match the query, which returns i, or the read faults.
PartialMatchScan(G, name, i) ==
    IF i >= G.nodeCount
    THEN {-1}
    ELSE IF ~G.nodes[i].active
    THEN PartialMatchScan(G, name, i + 1)
    ELSE LET haystack == G.nodes[i].name
         IN  IF Len(name) > Len(haystack)
             THEN {i, Fault}
             ELSE IF \E j \in 0 .. (Len(haystack) - Len(name)) : MatchAt(haystack, name, j)
             THEN {i}
             ELSE PartialMatchScan(G, name, i + 1)

\* The values graph_find_node_by_name(graph, name) can return.
graph_find_node_by_name(G, name) ==
    LET exact == { i \in NodeSlots : /\ i < G.nodeCount
                                     /\ G.nodes[i].active
                                     /\ SameIgnoringCase(G.nodes[i].name, name) }
    IN  IF exact # {}
        THEN {MinOf(exact)}
        ELSE PartialMatchScan(G, name, 0)

RECURSIVE NearScan_orEqual(_, _, _, _, _, _)
\* Mutant of NearScan: a node as close as the closest so far replaces it.
NearScan_orEqual(G, x, y, i, closest, closestDist) ==
    IF i >= G.nodeCount
    THEN closest
    ELSE IF ~G.nodes[i].active
    THEN NearScan_orEqual(G, x, y, i + 1, closest, closestDist)
    ELSE LET dx     == FloatSub(G.nodes[i].x, x)
             dy     == FloatSub(G.nodes[i].y, y)
             distSq == FloatAdd(FloatMul(dx, dx), FloatMul(dy, dy))
         IN  IF distSq <= closestDist
             THEN NearScan_orEqual(G, x, y, i + 1, i, distSq)
             ELSE NearScan_orEqual(G, x, y, i + 1, closest, closestDist)

RECURSIVE NearScan(_, _, _, _, _, _)
\* lines 125-136: the loop from node i on, with the closest node so far
NearScan(G, x, y, i, closest, closestDist) ==
    IF i >= G.nodeCount
    THEN closest
    ELSE IF ~G.nodes[i].active
    THEN NearScan(G, x, y, i + 1, closest, closestDist)
    ELSE LET dx     == FloatSub(G.nodes[i].x, x)
             dy     == FloatSub(G.nodes[i].y, y)
             distSq == FloatAdd(FloatMul(dx, dx), FloatMul(dy, dy))
         IN  IF FloatLess(distSq, closestDist)
             THEN NearScan(G, x, y, i + 1, i, distSq)
             ELSE NearScan(G, x, y, i + 1, closest, closestDist)

graph_find_node_at_position(G, x, y, radius) ==
    NearScan(G, x, y, 0, -1, FloatMul(radius, radius))

(***************************************************************************)
(* graph.c: graph_save and graph_load.  A file is the sequence of the      *)
(* fields fwrite emits, one element per field: the 8 magic bytes, the int  *)
(* nodeCount, per node id, name[MAX_NAME_LENGTH], x, y and the active      *)
(* byte, then MAX_NODES ints of edgeCounts, then per edge from, to, weight *)
(* and the active byte.  A field is a record: kind says what was written,  *)
(* n how many of its bytes the file holds and v what those bytes hold.     *)
(* graph_save writes every field whole; a file that lost its tail can end  *)
(* at any byte, its last field then holds the first n bytes only:          *)
(*   int, float  the low n bytes of the value (the build is little-endian; *)
(*               the sign of a float sits in the byte that is cut first),  *)
(*   name        the characters in the first n bytes, the terminating NUL  *)
(*               included exactly when n is more than their number,        *)
(*   magic       the first n characters.                                   *)
(***************************************************************************)
MAGIC == << "R", "C", "G", "R", "A", "P", "H", "1" >>

\* fwrite(magic, 1, 8, file)
MagicField(m) == [kind |-> "magic", v |-> m, n |-> 8]

\* fwrite(&i, sizeof(int), 1, file)
IntField(i) == [kind |-> "int", v |-> i, n |-> 4]

\* fwrite(node->name, sizeof(char), MAX_NAME_LENGTH, file)
NameField(s) == [kind |-> "name", v |-> s, n |-> MAX_NAME_LENGTH]

\* fwrite(&x, sizeof(float), 1, file)
FloatField(x) == [kind |-> "float", v |-> x, n |-> 4]

\* fwrite(&b, sizeof(bool), 1, file): the byte of a bool, 1 or 0
BoolByte(b) == IF b THEN 1 ELSE 0

BoolField(b) == [kind |-> "bool", v |-> BoolByte(b), n |-> 1]

\* The bool a byte read into it holds.  Only the bytes graph_save writes are
\* given a value: what a bool holding any other byte tests as is not fixed by
\* the language, and no file here holds one.
ByteBool(v) == CASE v = 0 -> FALSE
                 [] v = 1 -> TRUE

\* 256^p, for p bytes of a 4-byte value
Bytes(p) == TwoTo[8 * p + 1]

NodeRecord(n) ==
    << IntField(n.id), NameField(n.name), FloatField(n.x), FloatField(n.y),
       BoolField(n.active) >>

EdgeRecord(e) ==
    << IntField(e.from), IntField(e.to), FloatField(e.weight), BoolField(e.active) >>

RECURSIVE SaveNodes(_, _)
\* the node loop of graph_save from slot i on
SaveNodes(G, i) ==
    IF i < G.nodeCount
    THEN NodeRecord(G.nodes[i]) \o SaveNodes(G, i + 1)
    ELSE <<>>

RECURSIVE SaveEdges_activeOnly(_, _, _)
\* Mutant of SaveEdges: the record of an inactive edge is not written.
SaveEdges_activeOnly(G, i, j) ==
    IF i >= G.nodeCount
    THEN <<>>
    ELSE IF j < G.edgeCounts[i]
    THEN (IF G.edges[i][j].active THEN EdgeRecord(G.edges[i][j]) ELSE <<>>)
             \o SaveEdges_activeOnly(G, i, j + 1)
    ELSE SaveEdges_activeOnly(G, i + 1, 0)

RECURSIVE SaveEdges(_, _, _)
\* the edge loops of graph_save from slot j of node i on
SaveEdges(G, i, j) ==
    IF i >= G.nodeCount
    THEN <<>>
    ELSE IF j < G.edgeCounts[i]
    THEN EdgeRecord(G.edges[i][j]) \o SaveEdges(G, i, j + 1)
    ELSE SaveEdges(G, i + 1, 0)

RECURSIVE SaveEdgeCounts(_, _)
\* the edge-count table from entry i on: MAX_NODES ints, whatever nodeCount is
SaveEdgeCounts(G, i) ==
    IF i < MAX_NODES
    THEN <<IntField(G.edgeCounts[i])>> \o SaveEdgeCounts(G, i + 1)
    ELSE <<>>

\* The file graph_save writes; the call returns true.
graph_save(G) ==
    <<MagicField(MAGIC), IntField(G.nodeCount)>>
        \o SaveNodes(G, 0)
        \o SaveEdgeCounts(G, 0)
        \o SaveEdges(G, 0, 0)

\* the bytes a file holds
RECURSIVE FileBytes(_)
FileBytes(f) == IF f = <<>> THEN 0 ELSE Head(f).n + FileBytes(Tail(f))

\* What is left of a field when the file ends p bytes into it, 0 < p < n.
CutField(fld, p) ==
    [ kind |-> fld.kind,
      v    |-> CASE fld.kind \in {"int", "float"} -> Abs(fld.v) % Bytes(p)
                 [] fld.kind \in {"name", "magic"} ->
                        SubSeq(fld.v, 1, IF p < Len(fld.v) THEN p ELSE Len(fld.v)),
      n    |-> p ]

\* fread(&i, sizeof(int), 1, file) into an int holding old, with the file at
\* field pos: the bytes the file still has are stored over the low bytes of
\* the variable, the others are left.  (No int here is negative.)
FreadInt(f, pos, old) ==
    IF pos > Len(f) THEN old
    ELSE IF f[pos].n = 4 THEN f[pos].v
    ELSE f[pos].v + (old - (old % Bytes(f[pos].n)))

\* fread(&x, sizeof(float), 1, file): as FreadInt on the bit pattern; a short
\* read leaves the fourth byte, and so the sign, as it was.
FreadFloat(f, pos, old) ==
    IF pos > Len(f) THEN old
    ELSE IF f[pos].n = 4 THEN f[pos].v
    ELSE LET size == f[pos].v + (Abs(old) - (Abs(old) % Bytes(f[pos].n)))
         IN  IF old < 0 THEN -size ELSE size

\* fread(node->name, sizeof(char), MAX_NAME_LENGTH, file): the string the
\* array holds afterwards.  A short read that brought the NUL ends the string
\* there, one that did not is followed by what the array held further on.
FreadName(f, pos, old) ==
    IF pos > Len(f) THEN old
    ELSE IF f[pos].n > Len(f[pos].v) THEN f[pos].v
    ELSE f[pos].v \o SubSeq(old, f[pos].n + 1, Len(old))

\* fread(&b, sizeof(bool), 1, file): one byte, read or not
FreadBool(f, pos, old) ==
    IF pos > Len(f) THEN old ELSE ByteBool(f[pos].v)

\* fread(magic, 1, 8, file) != 8 || memcmp(magic, "RCGRAPH1", 8) != 0
FreadMagicFails(f) ==
    \/ Len(f) < 1
    \/ f[1].n # 8
    \/ f[1].v # MAGIC

RECURSIVE EdgesBefore(_, _)
\* edge records the file holds for the nodes before node i
EdgesBefore(ec, i) == IF i = 0 THEN 0 ELSE ec[i - 1] + EdgesBefore(ec, i - 1)

\* graph_load of file f into graph G.  A failed read of the magic leaves the
\* graph alone.  After graph_init the read of nodeCount is checked: a short
\* one returns false with the bytes it got in nodeCount.  No later fread is
\* checked: each stores the bytes the file still has over the zeroed field.
graph_load(G, f) ==
    IF FreadMagicFails(f)
    THEN [g |-> G, ret |-> FALSE]
    ELSE IF Len(f) < 2 \/ f[2].n # 4
    THEN [ g   |-> [graph_init EXCEPT !.nodeCount = FreadInt(f, 2, graph_init.nodeCount)],
           ret |-> FALSE ]
    ELSE LET n      == f[2].v
             ecBase == 2 + 5 * n
             ec     == [i \in NodeSlots |->
                           FreadInt(f, ecBase + i + 1, graph_init.edgeCounts[i])]
         IN  [ g |-> [ nodeCount  |-> n,
                       nodes      |-> [i \in NodeSlots |->
                           IF i < n
                           THEN [ id     |-> FreadInt(f, 2 + 5 * i + 1, ZeroNode.id),
                                  name   |-> FreadName(f, 2 + 5 * i + 2, ZeroNode.name),
                                  x      |-> FreadFloat(f, 2 + 5 * i + 3, ZeroNode.x),
                                  y      |-> FreadFloat(f, 2 + 5 * i + 4, ZeroNode.y),
                                  active |-> FreadBool(f, 2 + 5 * i + 5, ZeroNode.active) ]
                           ELSE ZeroNode],
                       edges      |-> [i \in NodeSlots |-> [j \in EdgeSlots |->
                           IF i < n /\ j < ec[i]
                           THEN LET at == ecBase + MAX_NODES
                                            + 4 * (EdgesBefore(ec, i) + j)
                                IN  [ from   |-> FreadInt(f, at + 1, ZeroEdge.from),
                                      to     |-> FreadInt(f, at + 2, ZeroEdge.to),
                                      weight |-> FreadFloat(f, at + 3, ZeroEdge.weight),
                                      active |-> FreadBool(f, at + 4, ZeroEdge.active) ]
                           ELSE ZeroEdge]],
                       edgeCounts |-> ec ],
               ret |-> TRUE ]

(***************************************************************************)
(* graph.c: path_result_create.  A NULL node array is the empty sequence.  *)
(***************************************************************************)
path_result_create == [nodes |-> <<>>, length |-> 0, totalCost |-> 0, found |-> FALSE]

\* graph.c: path_result_free.  A result with a node array loses it and its
\* length; totalCost and found are kept.
path_result_free(r) ==
    IF r.nodes # <<>> THEN [r EXCEPT !.nodes = <<>>, !.length = 0] ELSE r

(***************************************************************************)
(* astar.c: the priority queue, a binary min-heap on fScore.  The heap     *)
(* storage is a sequence: C index i is element i + 1.                      *)
(***************************************************************************)
pq_create(capacity) == [nodes |-> <<>>, size |-> 0, capacity |-> capacity]

pq_swap(h, i, j) == [h EXCEPT ![i + 1] = h[j + 1], ![j + 1] = h[i + 1]]

RECURSIVE pq_heapify_up(_, _)
pq_heapify_up(h, idx) ==
    IF idx > 0
    THEN LET parent == (idx - 1) \div 2
         IN  IF FloatLess(h[idx + 1].fScore, h[parent + 1].fScore)
             THEN pq_heapify_up(pq_swap(h, idx, parent), parent)
             ELSE h
    ELSE h

RECURSIVE pq_heapify_down_leftOnly(_, _, _)
\* Mutant of pq_heapify_down: the right child is not looked at.
pq_heapify_down_leftOnly(h, size, idx) ==
    LET left     == 2 * idx + 1
        smallest == IF left < size /\ FloatLess(h[left + 1].fScore, h[idx + 1].fScore)
                    THEN left ELSE idx
    IN  IF smallest # idx
        THEN pq_heapify_down_leftOnly(pq_swap(h, idx, smallest), size, smallest)
        ELSE h

RECURSIVE pq_heapify_down(_, _, _)
pq_heapify_down(h, size, idx) ==
    LET left  == 2 * idx + 1
        right == 2 * idx + 2
        s1 == IF left < size /\ FloatLess(h[left + 1].fScore, h[idx + 1].fScore)
              THEN left ELSE idx
        smallest == IF right < size /\ FloatLess(h[right + 1].fScore, h[s1 + 1].fScore)
                    THEN right ELSE s1
    IN  IF smallest # idx
        THEN pq_heapify_down(pq_swap(h, idx, smallest), size, smallest)
        ELSE h

\* Mutant of pq_push: the entry is appended and not sifted up.
pq_push_noHeapify(pq, nodeId, fScore) ==
    IF pq.size >= pq.capacity
    THEN [pq |-> pq, ret |-> FALSE]
    ELSE [ pq  |-> [pq EXCEPT
                      !.nodes = Append(pq.nodes, [nodeId |-> nodeId, fScore |-> fScore]),
                      !.size = pq.size + 1],
           ret |-> TRUE ]

pq_push(pq, nodeId, fScore) ==
    IF pq.size >= pq.capacity
    THEN [pq |-> pq, ret |-> FALSE]
    ELSE [ pq  |-> [pq EXCEPT
                      !.nodes = pq_heapify_up(
                                    Append(pq.nodes, [nodeId |-> nodeId, fScore |-> fScore]),
                                    pq.size),
                      !.size = pq.size + 1],
           ret |-> TRUE ]

\* Mutant of pq_pop: the root is returned and the last entry is dropped.
pq_pop_dropsLast(pq) ==
    IF pq.size = 0
    THEN [pq |-> pq, ret |-> FALSE, nodeId |-> -1, fScore |-> 0]
    ELSE [ pq     |-> [pq EXCEPT !.nodes = SubSeq(pq.nodes, 1, pq.size - 1),
                                 !.size = pq.size - 1],
           ret    |-> TRUE,
           nodeId |-> pq.nodes[1].nodeId,
           fScore |-> pq.nodes[1].fScore ]

\* pq_pop: the entry returned and the queue left; on an empty queue the call
\* fails and writes no entry.
pq_pop(pq) ==
    IF pq.size = 0
    THEN [pq |-> pq, ret |-> FALSE, nodeId |-> -1, fScore |-> 0]
    ELSE LET top  == pq.nodes[1]
             size == pq.size - 1
             moved == <<pq.nodes[size + 1]>> \o SubSeq(pq.nodes, 2, size)
         IN  [ pq     |-> [pq EXCEPT !.nodes = IF size > 0
                                                THEN pq_heapify_down(moved, size, 0)
                                                ELSE <<>>,
                                      !.size = size],
               ret    |-> TRUE,
               nodeId |-> top.nodeId,
               fScore |-> top.fScore ]

pq_empty(pq) == pq.size = 0

\* Mutant of pq_decrease_priority: the entry is pushed without a search for
\* an entry the node already has.
pq_decrease_priority_alwaysPush(pq, nodeId, newFScore) ==
    pq_push(pq, nodeId, newFScore).pq

pq_decrease_priority(pq, nodeId, newFScore) ==
    LET hits == { i \in 0 .. (pq.size - 1) : pq.nodes[i + 1].nodeId = nodeId }
    IN  IF hits # {}
        THEN LET i == MinOf(hits)
             IN  IF FloatLess(newFScore, pq.nodes[i + 1].fScore)
                 THEN [pq EXCEPT !.nodes = pq_heapify_up(
                                     [pq.nodes EXCEPT ![i + 1].fScore = newFScore], i)]
                 ELSE pq
        ELSE pq_push(pq, nodeId, newFScore).pq

(***************************************************************************)
(* astar.c: heuristics                                                     *)
(***************************************************************************)
\* The square of a difference d as gcc -O2 compiles fabsf(d) * fabsf(d), in
\* the build unity_build.c gives: d * d without the fabsf, so that a NaN keeps
\* its sign.  (Built without optimisation the sign of that NaN is cleared;
\* for every d that is not a NaN the two are the same float.)
SquareOfAbs(d) == FloatMul(d, d)

astar_heuristic(a, b, type) ==
    LET dx == FloatSub(b.x, a.x)
        dy == FloatSub(b.y, a.y)
    IN  CASE type = "EUCLIDEAN" -> FloatSqrt(FloatAdd(SquareOfAbs(dx), SquareOfAbs(dy)))
          [] type = "MANHATTAN" -> FloatAdd(Abs(dx), Abs(dy))
          [] type = "CHEBYSHEV" -> FloatMax(Abs(dx), Abs(dy))
          [] OTHER              -> 0

\* FLT_MAX of <float.h>, 0x7F7FFFFF: the largest finite float.
FLT_MAX == 2139095039

(***************************************************************************)
(* astar.c: reconstruct_path                                               *)
(***************************************************************************)
RECURSIVE WalkBack(_, _, _, _, _)
\* the counting loop: the node the walk stops at and the links followed
WalkBack(cameFrom, startId, nodeCount, current, length) ==
    IF current # startId /\ current # -1 /\ length < nodeCount
    THEN WalkBack(cameFrom, startId, nodeCount, cameFrom[current], length + 1)
    ELSE [current |-> current, length |-> length]

RECURSIVE FillPath_goalFirst(_, _, _)
\* Mutant of FillPath: the chain is written from index 0 up, goal first.
FillPath_goalFirst(cameFrom, current, i) ==
    IF i < 0
    THEN <<>>
    ELSE <<current>> \o FillPath_goalFirst(cameFrom, cameFrom[current], i - 1)

RECURSIVE FillPath(_, _, _)
\* the fill loop: the last i + 1 nodes of the chain that ends in `current`
FillPath(cameFrom, current, i) ==
    IF i < 0
    THEN <<>>
    ELSE Append(FillPath(cameFrom, cameFrom[current], i - 1), current)

\* Mutant of reconstruct_path: the start node is not counted into the length.
reconstruct_path_startNotCounted(cameFrom, gScore, startId, goalId, nodeCount) ==
    LET w == WalkBack(cameFrom, startId, nodeCount, goalId, 0)
    IN  IF w.current # startId
        THEN path_result_create
        ELSE [ nodes     |-> FillPath(cameFrom, goalId, w.length - 1),
               length    |-> w.length,
               totalCost |-> gScore[goalId],
               found     |-> TRUE ]

reconstruct_path(cameFrom, gScore, startId, goalId, nodeCount) ==
    LET w == WalkBack(cameFrom, startId, nodeCount, goalId, 0)
        length == IF w.current = startId THEN w.length + 1 ELSE w.length
    IN  IF w.current # startId
        THEN path_result_create
        ELSE [ nodes     |-> FillPath(cameFrom, goalId, length - 1),
               length    |-> length,
               totalCost |-> gScore[goalId],
               found     |-> TRUE ]

(***************************************************************************)
(* astar.c: astar_find_path.  The working storage of one search:           *)
(* gScore, fScore, cameFrom, inClosedSet, inOpenSet, openSet, and the      *)
(* maxOpenSetSize statistic.                                               *)
(***************************************************************************)
astar_default_config == [heuristic |-> "EUCLIDEAN", heuristicWeight |-> ToFloat(1)]

\* Mutant of SearchSetup: the start node is not pushed.
SearchSetup_startNotPushed(G, startId, goalId, cfg) ==
    LET ids == 0 .. (G.nodeCount - 1)
        h   == FloatMul(astar_heuristic(G.nodes[startId], G.nodes[goalId], cfg.heuristic),
                   cfg.heuristicWeight)
    IN  [ gScore         |-> [i \in ids |-> IF i = startId THEN 0 ELSE FLT_MAX],
          fScore         |-> [i \in ids |-> IF i = startId THEN h ELSE FLT_MAX],
          cameFrom       |-> [i \in ids |-> -1],
          inClosedSet    |-> [i \in ids |-> FALSE],
          inOpenSet      |-> [i \in ids |-> FALSE],
          openSet        |-> pq_create(G.nodeCount),
          maxOpenSetSize |-> 0 ]

\* lines 250-297: the working storage with start pushed
SearchSetup(G, startId, goalId, cfg) ==
    LET ids == 0 .. (G.nodeCount - 1)
        h   == FloatMul(astar_heuristic(G.nodes[startId], G.nodes[goalId], cfg.heuristic),
                   cfg.heuristicWeight)
    IN  [ gScore         |-> [i \in ids |-> IF i = startId THEN 0 ELSE FLT_MAX],
          fScore         |-> [i \in ids |-> IF i = startId THEN h ELSE FLT_MAX],
          cameFrom       |-> [i \in ids |-> -1],
          inClosedSet    |-> [i \in ids |-> FALSE],
          inOpenSet      |-> [i \in ids |-> i = startId],
          openSet        |-> pq_push(pq_create(G.nodeCount), startId, h).pq,
          maxOpenSetSize |-> 1 ]

\* Mutant of RelaxEdge: an edge to an inactive node is followed.
RelaxEdge_inactiveNeighbor(G, goalId, cfg, currentId, i, W) ==
    LET edge       == G.edges[currentId][i]
        neighborId == edge.to
    IN  IF ~edge.active THEN W
        ELSE IF W.inClosedSet[neighborId] THEN W
        ELSE LET tentativeG == FloatAdd(W.gScore[currentId], edge.weight)
             IN  IF FloatLess(tentativeG, W.gScore[neighborId])
                 THEN LET h == FloatMul(astar_heuristic(G.nodes[neighborId], G.nodes[goalId],
                                               cfg.heuristic), cfg.heuristicWeight)
                          f == FloatAdd(tentativeG, h)
                          W1 == [W EXCEPT !.cameFrom[neighborId] = currentId,
                                          !.gScore[neighborId] = tentativeG,
                                          !.fScore[neighborId] = f]
                      IN  IF ~W.inOpenSet[neighborId]
                          THEN LET q == pq_push(W1.openSet, neighborId, f).pq
                               IN  [W1 EXCEPT !.openSet = q,
                                              !.inOpenSet[neighborId] = TRUE,
                                              !.maxOpenSetSize =
                                                  Max2(q.size, W1.maxOpenSetSize)]
                          ELSE [W1 EXCEPT !.openSet =
                                    pq_decrease_priority(W1.openSet, neighborId, f)]
                 ELSE W

\* Mutant of RelaxEdge: the first cost found for a node is kept.
RelaxEdge_noImprovement(G, goalId, cfg, currentId, i, W) ==
    LET edge       == G.edges[currentId][i]
        neighborId == edge.to
    IN  IF ~edge.active THEN W
        ELSE IF ~G.nodes[neighborId].active THEN W
        ELSE IF W.inClosedSet[neighborId] THEN W
        ELSE LET tentativeG == FloatAdd(W.gScore[currentId], edge.weight)
             IN  IF W.gScore[neighborId] = FLT_MAX
                 THEN LET h == FloatMul(astar_heuristic(G.nodes[neighborId], G.nodes[goalId],
                                               cfg.heuristic), cfg.heuristicWeight)
                          f == FloatAdd(tentativeG, h)
                          W1 == [W EXCEPT !.cameFrom[neighborId] = currentId,
                                          !.gScore[neighborId] = tentativeG,
                                          !.fScore[neighborId] = f]
                      IN  IF ~W.inOpenSet[neighborId]
                          THEN LET q == pq_push(W1.openSet, neighborId, f).pq
                               IN  [W1 EXCEPT !.openSet = q,
                                              !.inOpenSet[neighborId] = TRUE,
                                              !.maxOpenSetSize =
                                                  Max2(q.size, W1.maxOpenSetSize)]
                          ELSE [W1 EXCEPT !.openSet =
                                    pq_decrease_priority(W1.openSet, neighborId, f)]
                 ELSE W

\* Mutant of RelaxEdge: an edge to a closed node is relaxed like any other.
RelaxEdge_reopensClosed(G, goalId, cfg, currentId, i, W) ==
    LET edge       == G.edges[currentId][i]
        neighborId == edge.to
    IN  IF ~edge.active THEN W
        ELSE IF ~G.nodes[neighborId].active THEN W
        ELSE LET tentativeG == FloatAdd(W.gScore[currentId], edge.weight)
             IN  IF FloatLess(tentativeG, W.gScore[neighborId])
                 THEN LET h == FloatMul(astar_heuristic(G.nodes[neighborId], G.nodes[goalId],
                                               cfg.heuristic), cfg.heuristicWeight)
                          f == FloatAdd(tentativeG, h)
                          W1 == [W EXCEPT !.cameFrom[neighborId] = currentId,
                                          !.gScore[neighborId] = tentativeG,
                                          !.fScore[neighborId] = f]
                      IN  IF ~W.inOpenSet[neighborId]
                          THEN LET q == pq_push(W1.openSet, neighborId, f).pq
                               IN  [W1 EXCEPT !.openSet = q,
                                              !.inOpenSet[neighborId] = TRUE,
                                              !.maxOpenSetSize =
                                                  Max2(q.size, W1.maxOpenSetSize)]
                          ELSE [W1 EXCEPT !.openSet =
                                    pq_decrease_priority(W1.openSet, neighborId, f)]
                 ELSE W

\* Mutant of RelaxEdge: an improved node is pushed whether or not it is in
\* the queue already.
RelaxEdge_alwaysPush(G, goalId, cfg, currentId, i, W) ==
    LET edge       == G.edges[currentId][i]
        neighborId == edge.to
    IN  IF ~edge.active THEN W
        ELSE IF ~G.nodes[neighborId].active THEN W
        ELSE IF W.inClosedSet[neighborId] THEN W
        ELSE LET tentativeG == FloatAdd(W.gScore[currentId], edge.weight)
             IN  IF FloatLess(tentativeG, W.gScore[neighborId])
                 THEN LET h == FloatMul(astar_heuristic(G.nodes[neighborId], G.nodes[goalId],
                                               cfg.heuristic), cfg.heuristicWeight)
                          f == FloatAdd(tentativeG, h)
                          W1 == [W EXCEPT !.cameFrom[neighborId] = currentId,
                                          !.gScore[neighborId] = tentativeG,
                                          !.fScore[neighborId] = f]
                          q == pq_push(W1.openSet, neighborId, f).pq
                      IN  [W1 EXCEPT !.openSet = q,
                                     !.inOpenSet[neighborId] = TRUE,
                                     !.maxOpenSetSize = Max2(q.size, W1.maxOpenSetSize)]
                 ELSE W

\* lines 323-354: the body of the neighbour loop for edge slot i of currentId
RelaxEdge(G, goalId, cfg, currentId, i, W) ==
    LET edge       == G.edges[currentId][i]
        neighborId == edge.to
    IN  IF ~edge.active THEN W
        ELSE IF ~G.nodes[neighborId].active THEN W
        ELSE IF W.inClosedSet[neighborId] THEN W
        ELSE LET tentativeG == FloatAdd(W.gScore[currentId], edge.weight)
             IN  IF FloatLess(tentativeG, W.gScore[neighborId])
                 THEN LET h == FloatMul(astar_heuristic(G.nodes[neighborId], G.nodes[goalId],
                                               cfg.heuristic), cfg.heuristicWeight)
                          f == FloatAdd(tentativeG, h)
                          W1 == [W EXCEPT !.cameFrom[neighborId] = currentId,
                                          !.gScore[neighborId] = tentativeG,
                                          !.fScore[neighborId] = f]
                      IN  IF ~W.inOpenSet[neighborId]
                          THEN LET q == pq_push(W1.openSet, neighborId, f).pq
                               IN  [W1 EXCEPT !.openSet = q,
                                              !.inOpenSet[neighborId] = TRUE,
                                              !.maxOpenSetSize =
                                                  Max2(q.size, W1.maxOpenSetSize)]
                          ELSE [W1 EXCEPT !.openSet =
                                    pq_decrease_priority(W1.openSet, neighborId, f)]
                 ELSE W

RECURSIVE ExploreNeighbors(_, _, _, _, _, _)
\* line 322: the neighbour loop from edge slot i on
ExploreNeighbors(G, goalId, cfg, currentId, i, W) ==
    IF i < G.edgeCounts[currentId]
    THEN ExploreNeighbors(G, goalId, cfg, currentId, i + 1,
                          RelaxEdge(G, goalId, cfg, currentId, i, W))
    ELSE W

(***************************************************************************)
(* astar.c: astar_get_exploration_order.  Its working storage is gScore,   *)
(* inClosedSet, inOpenSet and openSet; `explored` is the caller's array,   *)
(* as the sequence of the ids recorded so far.  startId and goalId are     *)
(* below nodeCount.                                                        *)
(***************************************************************************)
\* lines 424-445: the body of the neighbour loop for edge slot i of currentId
ExploreRelaxEdge(G, goalId, currentId, i, X) ==
    LET edge       == G.edges[currentId][i]
        neighborId == edge.to
    IN  IF ~edge.active THEN X
        ELSE IF ~G.nodes[neighborId].active THEN X
        ELSE IF X.inClosedSet[neighborId] THEN X
        ELSE LET tentativeG == FloatAdd(X.gScore[currentId], edge.weight)
             IN  IF FloatLess(tentativeG, X.gScore[neighborId])
                 THEN LET h == astar_heuristic(G.nodes[neighborId], G.nodes[goalId],
                                               "EUCLIDEAN")
                          f == FloatAdd(tentativeG, h)
                          X1 == [X EXCEPT !.gScore[neighborId] = tentativeG]
                      IN  IF ~X.inOpenSet[neighborId]
                          THEN [X1 EXCEPT !.openSet = pq_push(X1.openSet, neighborId, f).pq,
                                          !.inOpenSet[neighborId] = TRUE]
                          ELSE X1
                 ELSE X

RECURSIVE ExploreEdges(_, _, _, _, _)
\* line 423: the neighbour loop from edge slot i on
ExploreEdges(G, goalId, currentId, i, X) ==
    IF i < G.edgeCounts[currentId]
    THEN ExploreEdges(G, goalId, currentId, i + 1,
                      ExploreRelaxEdge(G, goalId, currentId, i, X))
    ELSE X

RECURSIVE ExploreLoop_overCap(_, _, _, _, _)
\* Mutant of ExploreLoop: the loop goes on while exploredCount <= maxNodes.
ExploreLoop_overCap(G, goalId, maxNodes, X, explored) ==
    IF pq_empty(X.openSet) \/ ~(Len(explored) <= maxNodes)
    THEN explored
    ELSE LET p  == pq_pop(X.openSet)
             X0 == [X EXCEPT !.openSet = p.pq, !.inOpenSet[p.nodeId] = FALSE]
         IN  IF X.inClosedSet[p.nodeId]
             THEN ExploreLoop_overCap(G, goalId, maxNodes, X0, explored)
             ELSE LET X1 == [X0 EXCEPT !.inClosedSet[p.nodeId] = TRUE]
                      e1 == Append(explored, p.nodeId)
                  IN  IF p.nodeId = goalId
                      THEN e1
                      ELSE ExploreLoop_overCap(G, goalId, maxNodes,
                                               ExploreEdges(G, goalId, p.nodeId, 0, X1), e1)

RECURSIVE ExploreLoop(_, _, _, _, _)
\* lines 412-446: the main loop from working storage X with `explored`
\* recorded; the ids recorded when the loop is left
ExploreLoop(G, goalId, maxNodes, X, explored) ==
    IF pq_empty(X.openSet) \/ ~(Len(explored) < maxNodes)
    THEN explored
    ELSE LET p  == pq_pop(X.openSet)
             X0 == [X EXCEPT !.openSet = p.pq, !.inOpenSet[p.nodeId] = FALSE]
         IN  IF X.inClosedSet[p.nodeId]
             THEN ExploreLoop(G, goalId, maxNodes, X0, explored)
             ELSE LET X1 == [X0 EXCEPT !.inClosedSet[p.nodeId] = TRUE]
                      e1 == Append(explored, p.nodeId)
                  IN  IF p.nodeId = goalId
                      THEN e1
                      ELSE ExploreLoop(G, goalId, maxNodes,
                                       ExploreEdges(G, goalId, p.nodeId, 0, X1), e1)

\* The ids written to `explored`; the value returned is their number.
astar_get_exploration_order(G, startId, goalId, maxNodes) ==
    IF startId < 0 \/ goalId < 0
    THEN <<>>
    ELSE LET ids == 0 .. (G.nodeCount - 1)
             h   == astar_heuristic(G.nodes[startId], G.nodes[goalId], "EUCLIDEAN")
             X   == [ gScore      |-> [i \in ids |-> IF i = startId THEN 0 ELSE FLT_MAX],
                      inClosedSet |-> [i \in ids |-> FALSE],
                      inOpenSet   |-> [i \in ids |-> i = startId],
                      openSet     |-> pq_push(pq_create(G.nodeCount), startId, h).pq ]
         IN  ExploreLoop(G, goalId, maxNodes, X, <<>>)

(***************************************************************************)
(* State.  graph: the store.  last: the last call of the store, of the     *)
(* queue or of astar_get_exploration_order, with its arguments and what it *)
(* returned; calls: the store calls made; file: the graph file on disk,    *)
(* saved: the graph as it was when the file was written.  The other        *)
(* variables are                                                           *)
(* one call of astar_find_path: pc is its position ("idle" before the      *)
(* call, "loop" at the head of the main loop, "goal" at the call of        *)
(* reconstruct_path, "done" once it has returned), startId/goalId/cfg its  *)
(* arguments, then its working storage, its statistics and the PathResult  *)
(* it returns.                                                             *)
(***************************************************************************)
VARIABLES graph, last, calls, file, saved,
          pc, startId, goalId, cfg,
          gScore, fScore, cameFrom, inClosedSet, inOpenSet, openSet,
          localStats, result

storeVars == <<graph, last, calls, file, saved>>

searchVars == <<pc, startId, goalId, cfg, gScore, fScore, cameFrom,
                inClosedSet, inOpenSet, openSet, localStats, result>>

vars == <<graph, last, calls, file, saved, pc, startId, goalId, cfg, gScore, fScore, cameFrom,
          inClosedSet, inOpenSet, openSet, localStats, result>>

NoCall == [op |-> "init", a |-> -1, b |-> -1, ret |-> -1]

ZeroStats == [nodesExplored |-> 0, nodesInOpenSet |-> 0, maxOpenSetSize |-> 0]

\* No search has been called.
SearchIdle ==
    /\ pc = "idle"
    /\ startId = -1
    /\ goalId = -1
    /\ cfg = astar_default_config
    /\ gScore = <<>>
    /\ fScore = <<>>
    /\ cameFrom = <<>>
    /\ inClosedSet = <<>>
    /\ inOpenSet = <<>>
    /\ openSet = pq_create(0)
    /\ localStats = ZeroStats
    /\ result = path_result_create

\* No file has been written.
NoFile ==
    /\ file = <<>>
    /\ saved = graph_init

Init ==
    /\ graph = graph_init
    /\ last = NoCall
    /\ calls = 0
    /\ NoFile
    /\ SearchIdle

(***************************************************************************)
(* The store calls                                                         *)
(***************************************************************************)
AddNode ==
    \E name \in Names, p \in Positions :
        LET r == graph_add_node(graph, name, p[1], p[2])
        IN  /\ graph' = r.g
            /\ last' = [op |-> "addNode", a |-> -1, b |-> -1, ret |-> r.ret]

RemoveNode ==
    \E id \in IdArgs(graph) :
        LET r == graph_remove_node(graph, id)
        IN  /\ graph' = r.g
            /\ last' = [op |-> "removeNode", a |-> id, b |-> -1, ret |-> r.ret]

AddEdge ==
    \E from \in IdArgs(graph), to \in IdArgs(graph), w \in Weights :
        LET r == graph_add_edge(graph, from, to, w)
        IN  /\ graph' = r.g
            /\ last' = [op |-> "addEdge", a |-> from, b |-> to, ret |-> r.ret]

AddEdgeBidirectional ==
    \E from \in IdArgs(graph), to \in IdArgs(graph), w \in Weights :
        LET r == graph_add_edge_bidirectional(graph, from, to, w)
        IN  /\ graph' = r.g
            /\ last' = [op |-> "addEdgeBidirectional", a |-> from, b |-> to, ret |-> r.ret]

RemoveEdge ==
    \E from \in IdArgs(graph), to \in IdArgs(graph) :
        LET r == graph_remove_edge(graph, from, to)
        IN  /\ graph' = r.g
            /\ last' = [op |-> "removeEdge", a |-> from, b |-> to, ret |-> r.ret]

\* graph_free, or graph_init called on a graph in use: returns nothing.
GraphFree ==
    /\ graph' = graph_free(graph)
    /\ last' = [op |-> "free", a |-> -1, b |-> -1, ret |-> -1]

\* One store call, while the run has calls left.
Call(A) ==
    /\ calls < MaxCalls
    /\ A
    /\ calls' = calls + 1
    /\ UNCHANGED <<file, saved>>
    /\ UNCHANGED searchVars

Next ==
    \/ Call(AddNode)
    \/ Call(RemoveNode)
    \/ Call(AddEdge)
    \/ Call(AddEdgeBidirectional)
    \/ Call(RemoveEdge)
    \/ Call(GraphFree)

Spec == Init /\ [][Next]_vars

(***************************************************************************)
(* astar_find_path, one step at a time                                     *)
(***************************************************************************)
Heuristics == {"EUCLIDEAN", "MANHATTAN", "CHEBYSHEV", "ZERO"}

\* Heuristic weights a search is configured with.
HeuristicWeights == { ToFloat(1) }

\* The working storage as one record, and back.
Work ==
    [ gScore |-> gScore, fScore |-> fScore, cameFrom |-> cameFrom,
      inClosedSet |-> inClosedSet, inOpenSet |-> inOpenSet, openSet |-> openSet,
      maxOpenSetSize |-> localStats.maxOpenSetSize ]

\* lines 236-241: an id out of range returns the empty result at once
AstarReject ==
    /\ pc = "idle"
    /\ \E s \in -1 .. graph.nodeCount, g \in -1 .. graph.nodeCount :
          /\ (s < 0 \/ g < 0 \/ s >= graph.nodeCount \/ g >= graph.nodeCount)
          /\ startId' = s
          /\ goalId' = g
    /\ result' = path_result_create
    /\ pc' = "done"
    /\ UNCHANGED <<cfg, gScore, fScore, cameFrom, inClosedSet, inOpenSet, openSet,
                   localStats>>
    /\ UNCHANGED storeVars

\* lines 236-297: the call with ids in range, up to the head of the main loop
AstarBegin(s, g, c) ==
    LET W == SearchSetup(graph, s, g, c)
    IN  /\ pc = "idle"
        /\ startId' = s
        /\ goalId' = g
        /\ cfg' = c
        /\ gScore' = W.gScore
        /\ fScore' = W.fScore
        /\ cameFrom' = W.cameFrom
        /\ inClosedSet' = W.inClosedSet
        /\ inOpenSet' = W.inOpenSet
        /\ openSet' = W.openSet
        /\ localStats' = [ZeroStats EXCEPT !.maxOpenSetSize = W.maxOpenSetSize]
        /\ result' = path_result_create
        /\ pc' = "loop"
        /\ UNCHANGED storeVars

Configs == [heuristic : Heuristics, heuristicWeight : HeuristicWeights]

\* Every node of G sits at the origin.
AllAtOrigin(G) ==
    \A i \in 0 .. (G.nodeCount - 1) : G.nodes[i].x = 0 /\ G.nodes[i].y = 0

\* The heuristic kinds G is searched with.  Where every node sits at the
\* origin every kind estimates 0 and the searches are the same: the kind ZERO
\* and the default kind are run.
KindsFor(G) == IF AllAtOrigin(G) THEN {"ZERO", "EUCLIDEAN"} ELSE Heuristics

\* a search between any two ids in range
AstarStart ==
    /\ pc = "idle"
    /\ \E c \in { k \in Configs : k.heuristic \in KindsFor(graph) } :
          \E s \in 0 .. (graph.nodeCount - 1), g \in 0 .. (graph.nodeCount - 1) :
             AstarBegin(s, g, c)

\* a search from the first node to the last
AstarStartEnds ==
    /\ pc = "idle"
    /\ graph.nodeCount > 0
    /\ \E c \in Configs : AstarBegin(0, graph.nodeCount - 1, c)

\* lines 300-313: the goal is popped; the path is reconstructed and returned
AstarGoal ==
    /\ pc = "loop"
    /\ ~pq_empty(openSet)
    /\ LET p == pq_pop(openSet)
       IN  /\ p.nodeId = goalId
           /\ openSet' = p.pq
           /\ inOpenSet' = [inOpenSet EXCEPT ![p.nodeId] = FALSE]
           /\ localStats' = [localStats EXCEPT
                                !.nodesExplored = localStats.nodesExplored + 1,
                                !.nodesInOpenSet = p.pq.size]
           /\ result' = reconstruct_path(cameFrom, gScore, startId, goalId,
                                         graph.nodeCount)
    /\ pc' = "done"
    /\ UNCHANGED <<startId, goalId, cfg, gScore, fScore, cameFrom, inClosedSet>>
    /\ UNCHANGED storeVars

\* Mutant of AstarVisit: the node popped is not put into the closed set.
AstarVisit_notClosed ==
    /\ pc = "loop"
    /\ ~pq_empty(openSet)
    /\ LET p  == pq_pop(openSet)
           W0 == [Work EXCEPT !.openSet = p.pq,
                              !.inOpenSet[p.nodeId] = FALSE]
           W  == IF inClosedSet[p.nodeId]
                 THEN W0
                 ELSE ExploreNeighbors(graph, goalId, cfg, p.nodeId, 0,
                                       W0)
       IN  /\ p.nodeId # goalId
           /\ gScore' = W.gScore
           /\ fScore' = W.fScore
           /\ cameFrom' = W.cameFrom
           /\ inClosedSet' = W.inClosedSet
           /\ inOpenSet' = W.inOpenSet
           /\ openSet' = W.openSet
           /\ localStats' = [localStats EXCEPT
                                !.nodesExplored = localStats.nodesExplored + 1,
                                !.maxOpenSetSize = W.maxOpenSetSize]
    /\ UNCHANGED <<pc, startId, goalId, cfg, result>>
    /\ UNCHANGED storeVars

\* lines 300-355: a node other than the goal is popped; unless it is closed
\* already (line 316), it is closed and its edges are relaxed
AstarVisit ==
    /\ pc = "loop"
    /\ ~pq_empty(openSet)
    /\ LET p  == pq_pop(openSet)
           W0 == [Work EXCEPT !.openSet = p.pq,
                              !.inOpenSet[p.nodeId] = FALSE]
           W  == IF inClosedSet[p.nodeId]
                 THEN W0
                 ELSE ExploreNeighbors(graph, goalId, cfg, p.nodeId, 0,
                                       [W0 EXCEPT !.inClosedSet[p.nodeId] = TRUE])
       IN  /\ p.nodeId # goalId
           /\ gScore' = W.gScore
           /\ fScore' = W.fScore
           /\ cameFrom' = W.cameFrom
           /\ inClosedSet' = W.inClosedSet
           /\ inOpenSet' = W.inOpenSet
           /\ openSet' = W.openSet
           /\ localStats' = [localStats EXCEPT
                                !.nodesExplored = localStats.nodesExplored + 1,
                                !.maxOpenSetSize = W.maxOpenSetSize]
    /\ UNCHANGED <<pc, startId, goalId, cfg, result>>
    /\ UNCHANGED storeVars

\* lines 300, 358-373: the queue is empty; the empty result is returned
AstarExhausted ==
    /\ pc = "loop"
    /\ pq_empty(openSet)
    /\ pc' = "done"
    /\ UNCHANGED <<startId, goalId, cfg, gScore, fScore, cameFrom, inClosedSet,
                   inOpenSet, openSet, localStats, result>>
    /\ UNCHANGED storeVars

(***************************************************************************)
(* The graphs searched are built by store calls: n nodes are added at      *)
(* positions pos; for each ordered pair of distinct nodes, in id order,    *)
(* addEdge is called with weight wt[<<from, to>>] unless that is 0; and    *)
(* one removal may be made: a node before the edges are added, a node      *)
(* after, or an edge after.                                                *)
(***************************************************************************)
\* Edge weights of the graphs searched.
SearchWeights == { ToFloat(1), ToFloat(3) }

\* Positions of the graphs searched: every distance is whole (3, 4, 5).
Origin == <<ToFloat(0), ToFloat(0)>>

SearchPositions == { Origin, <<ToFloat(3), ToFloat(4)>> }

\* Nodes of the graphs searched between any two ids.
SearchNodes == 3

\* Nodes of the forward graphs.
ForwardNodes == 4

RECURSIVE AddNodes(_, _, _)
AddNodes(G, pos, k) ==
    IF k >= Len(pos)
    THEN G
    ELSE AddNodes(graph_add_node(G, <<"a">>, pos[k + 1][1], pos[k + 1][2]).g, pos, k + 1)

RECURSIVE AddEdges(_, _, _, _)
AddEdges(G, n, wt, k) ==
    IF k >= n * n
    THEN G
    ELSE LET from == k \div n
             to   == k % n
         IN  IF <<from, to>> \in DOMAIN wt /\ wt[<<from, to>>] # 0
             THEN AddEdges(graph_add_edge(G, from, to, wt[<<from, to>>]).g, n, wt, k + 1)
             ELSE AddEdges(G, n, wt, k + 1)

BuildGraph(pos, wt, rem) ==
    LET n  == Len(pos)
        G0 == AddNodes(graph_init, pos, 0)
        G1 == IF rem[1] = "nodeBefore" THEN graph_remove_node(G0, rem[2]).g ELSE G0
        G2 == AddEdges(G1, n, wt, 0)
    IN  CASE rem[1] = "nodeAfter" -> graph_remove_node(G2, rem[2]).g
          [] rem[1] = "edgeAfter" -> graph_remove_edge(G2, rem[2], rem[3]).g
          [] OTHER                -> G2

OrderedPairs(n) == { p \in (0 .. (n - 1)) \X (0 .. (n - 1)) : p[1] # p[2] }

ForwardPairs(n) == { p \in (0 .. (n - 1)) \X (0 .. (n - 1)) : p[1] < p[2] }

NoRemoval == <<"none", 0, 0>>

Removals(n) ==
    { NoRemoval }
        \cup { <<"nodeBefore", r, 0>> : r \in 0 .. (n - 1) }
        \cup { <<"nodeAfter", r, 0>> : r \in 0 .. (n - 1) }
        \cup { <<"edgeAfter", p[1], p[2]>> : p \in OrderedPairs(n) }

\* The first node sits at the origin, and positions vary only on graphs
\* nothing was removed from.
PositionsOf(n, rem) ==
    { pos \in [1 .. n -> SearchPositions] :
        /\ pos[1] = Origin
        /\ rem # NoRemoval => \A k \in 1 .. n : pos[k] = Origin }

InitSearch ==
    /\ \E n \in 1 .. SearchNodes :
          \E wt \in [OrderedPairs(n) -> SearchWeights \cup {0}], rem \in Removals(n) :
             \E pos \in PositionsOf(n, rem) :
                graph = BuildGraph(pos, wt, rem)
    /\ last = NoCall
    /\ calls = 0
    /\ NoFile
    /\ SearchIdle

NextSearch ==
    \/ AstarReject
    \/ AstarStart
    \/ AstarGoal
    \/ AstarVisit
    \/ AstarExhausted

SpecSearch == InitSearch /\ [][NextSearch]_vars

(***************************************************************************)
(* Forward graphs: ForwardNodes nodes, edges only from a lower id to a     *)
(* higher one, searched from the first node to the last.                   *)
(***************************************************************************)
InitForward ==
    /\ \E wt \in [ForwardPairs(ForwardNodes) -> SearchWeights \cup {0}] :
          \E pos \in PositionsOf(ForwardNodes, NoRemoval) :
             graph = BuildGraph(pos, wt, NoRemoval)
    /\ last = NoCall
    /\ calls = 0
    /\ NoFile
    /\ SearchIdle

NextForward ==
    \/ AstarStartEnds
    \/ AstarGoal
    \/ AstarVisit
    \/ AstarExhausted

SpecForward == InitForward /\ [][NextForward]_vars

(***************************************************************************)
(* Helpers of the properties                                               *)
(***************************************************************************)
InRange(G, id) == id >= 0 /\ id < G.nodeCount

\* Slots of `from` within its edge count that hold an active edge to `to`.
ActiveSlots(G, from, to) ==
    { i \in EdgeSlots : /\ i < G.edgeCounts[from]
                        /\ G.edges[from][i].to = to
                        /\ G.edges[from][i].active }

\* The value a failed call returns.
Failed(l) ==
    \/ l.op = "addNode" /\ l.ret = -1
    \/ l.op \in {"removeNode", "addEdge", "addEdgeBidirectional", "removeEdge"} /\ l.ret = FALSE

(***************************************************************************)
(* Reference for the search properties: the cheapest walk along active     *)
(* edges between active nodes, by Bellman-Ford relaxation rounds.          *)
(***************************************************************************)
\* Above every path cost: no walk.
NoPath == FLT_MAX

LiveEdges(G) ==
    { e \in UNION { { G.edges[i][j] : j \in { k \in EdgeSlots : k < G.edgeCounts[i] } } :
                    i \in { k \in NodeSlots : k < G.nodeCount } } :
        e.active /\ G.nodes[e.from].active /\ G.nodes[e.to].active }

MinOfSet(S) == CHOOSE m \in S : \A k \in S : m <= k

RECURSIVE RelaxRounds(_, _, _)
RelaxRounds(G, d, k) ==
    IF k = 0
    THEN d
    ELSE RelaxRounds(G,
            [v \in DOMAIN d |->
                MinOfSet({d[v]} \cup { FloatAdd(d[e.from], e.weight) :
                                        e \in { x \in LiveEdges(G) :
                                                  x.to = v /\ d[x.from] # NoPath } })],
            k - 1)

\* Cheapest cost from s to every node, NoPath where there is no walk.
MinCostFrom(G, s) ==
    RelaxRounds(G, [v \in 0 .. (G.nodeCount - 1) |-> IF v = s THEN 0 ELSE NoPath],
                G.nodeCount)

MinCost(G, s, g) == MinCostFrom(G, s)[g]

ValidRequest ==
    /\ InRange(graph, startId)
    /\ InRange(graph, goalId)
    /\ graph.nodes[startId].active
    /\ graph.nodes[goalId].active

(***************************************************************************)
(* C1: with the Zero heuristic, a search between active nodes s and g      *)
(* joined by a directed path of active edges returns found = true with     *)
(* totalCost the minimum path cost.                                        *)
(***************************************************************************)
C1_ZeroHeuristicOptimal ==
    ( /\ pc = "done"
      /\ ValidRequest
      /\ cfg.heuristic = "ZERO"
      /\ MinCost(graph, startId, goalId) # NoPath )
        => /\ result.found
           /\ result.totalCost = MinCost(graph, startId, goalId)

\* A Zero-heuristic search has returned where a direct edge start -> goal
\* costs more than the cheapest path.
C1_Witness ==
    /\ pc = "done"
    /\ ValidRequest
    /\ cfg.heuristic = "ZERO"
    /\ result.found
    /\ result.length = 3
    /\ \E e \in LiveEdges(graph) :
          e.from = startId /\ e.to = goalId /\ e.weight > result.totalCost

(***************************************************************************)
(* C2: with heuristic weight 1 and the Euclidean, Manhattan or Chebyshev   *)
(* metric, on a graph where the metric from every node to the goal never   *)
(* exceeds that node's cheapest cost to the goal, totalCost is the minimum *)
(* path cost.                                                              *)
(***************************************************************************)
Admissible(G, g, kind) ==
    \A v \in 0 .. (G.nodeCount - 1) :
        astar_heuristic(G.nodes[v], G.nodes[g], kind) <= MinCost(G, v, g)

C2_AdmissibleOptimal ==
    ( /\ pc = "done"
      /\ ValidRequest
      /\ cfg.heuristic \in {"EUCLIDEAN", "MANHATTAN", "CHEBYSHEV"}
      /\ cfg.heuristicWeight = ToFloat(1)
      /\ MinCost(graph, startId, goalId) # NoPath
      /\ Admissible(graph, goalId, cfg.heuristic) )
        => /\ result.found
           /\ result.totalCost = MinCost(graph, startId, goalId)

(***************************************************************************)
(* C3: a search whose start or goal id is out of range or names an         *)
(* inactive node returns the empty result: found = false, no nodes,        *)
(* length 0, cost 0.                                                       *)
(***************************************************************************)
C3_InvalidIdsRejected ==
    (pc = "done" /\ ~ValidRequest) => result = path_result_create

(***************************************************************************)
(* C4: a search with start = goal, an active node, returns found = true    *)
(* with the path holding that node alone and cost 0, whatever else the     *)
(* graph holds.                                                            *)
(***************************************************************************)
C4_StartIsGoal ==
    (pc = "done" /\ ValidRequest /\ startId = goalId)
        => result = [nodes |-> <<startId>>, length |-> 1, totalCost |-> 0, found |-> TRUE]

\* Such a search has returned on a graph where the node has an outgoing
\* edge to another active node.
C4_Witness ==
    /\ pc = "done"
    /\ ValidRequest
    /\ startId = goalId
    /\ result.found
    /\ \E e \in LiveEdges(graph) : e.from = startId /\ e.to # startId

(***************************************************************************)
(* C5: when no path leads from an active start to the goal, the search     *)
(* returns found = false with no nodes, length 0 and cost 0.               *)
(***************************************************************************)
C5_NoPathNotFound ==
    ( /\ pc = "done"
      /\ InRange(graph, startId)
      /\ InRange(graph, goalId)
      /\ graph.nodes[startId].active
      /\ MinCost(graph, startId, goalId) = NoPath )
        => result = path_result_create

\* The queue ran empty after the start's neighbours were explored: the goal
\* is an active node no path reaches.
C5_Witness ==
    /\ pc = "done"
    /\ ValidRequest
    /\ MinCost(graph, startId, goalId) = NoPath
    /\ localStats.nodesExplored >= 2
    /\ ~result.found

(***************************************************************************)
(* C6: after removeNode(x) has run on an in-range x, hasEdge(y,x) is false *)
(* for every other active node y and neighbors(x) is the empty list.       *)
(***************************************************************************)
C6_RemoveNodeCutsEdges ==
    (last.op = "removeNode" /\ last.ret = TRUE) =>
        /\ \A y \in NodeSlots :
              (y # last.a /\ InRange(graph, y) /\ graph.nodes[y].active)
                  => ~graph_has_edge(graph, y, last.a)
        /\ graph_get_neighbors(graph, last.a, MAX_EDGES_PER_NODE) = <<>>

\* removeNode(x) has just run where an active y held an edge y->x and x held
\* an outgoing edge of its own.
C6_Witness ==
    /\ last.op = "removeNode"
    /\ last.ret = TRUE
    /\ \E y \in NodeSlots :
          /\ y # last.a
          /\ InRange(graph, y)
          /\ graph.nodes[y].active
          /\ \E j \in EdgeSlots :
                /\ j < graph.edgeCounts[y]
                /\ graph.edges[y][j].to = last.a
                /\ graph.edges[y][j].weight > 0
                /\ ~graph.edges[y][j].active
    /\ graph.edges[last.a][0].active
    /\ graph.edgeCounts[last.a] = 0

(***************************************************************************)
(* C7: once removeNode has deactivated a node, every later addEdge or      *)
(* addBidirectionalEdge naming it as source or destination fails.          *)
(***************************************************************************)
C7_NoEdgeOnRemovedNode ==
    ( /\ last.op \in {"addEdge", "addEdgeBidirectional"}
      /\ InRange(graph, last.a)
      /\ InRange(graph, last.b)
      /\ (~graph.nodes[last.a].active \/ ~graph.nodes[last.b].active) )
        => last.ret = FALSE

(***************************************************************************)
(* C8: the graph holds at most one active edge per ordered (from,to) pair, *)
(* and addEdge for a pair that has an active edge is rejected and leaves   *)
(* exactly that one edge.                                                  *)
(***************************************************************************)
AtMostOneActiveEdge ==
    \A from \in NodeSlots, to \in NodeSlots :
        Cardinality(ActiveSlots(graph, from, to)) <= 1

DuplicateRejected ==
    ( /\ last'.op = "addEdge"
      /\ InRange(graph, last'.a)
      /\ ActiveSlots(graph, last'.a, last'.b) # {} )
        => /\ last'.ret = FALSE
           /\ Cardinality(ActiveSlots(graph', last'.a, last'.b)) = 1

C8_OneEdgePerPair == []AtMostOneActiveEdge /\ [][DuplicateRejected]_vars

\* addEdge(from,to) has just been rejected although from had a free slot:
\* the pair already had its active edge.
C8_Witness ==
    /\ last.op = "addEdge"
    /\ last.ret = FALSE
    /\ InRange(graph, last.a)
    /\ InRange(graph, last.b)
    /\ graph.edgeCounts[last.a] < MAX_EDGES_PER_NODE
    /\ Cardinality(ActiveSlots(graph, last.a, last.b)) = 1

(***************************************************************************)
(* C9: removeNode on a node that is already inactive returns failure and   *)
(* leaves the graph unchanged.                                             *)
(***************************************************************************)
C9_RemoveNodeIdempotent ==
    [][ ( /\ last'.op = "removeNode"
          /\ InRange(graph, last'.a)
          /\ ~graph.nodes[last'.a].active )
            => (last'.ret = FALSE /\ graph' = graph) ]_vars

(***************************************************************************)
(* C10: a failed mutation returns its failure value and leaves the graph   *)
(* as it was: addNode at capacity, addEdge with an out-of-range endpoint,  *)
(* a full adjacency list or a duplicate pair, removeEdge with no matching  *)
(* active edge, removeNode with an out-of-range id.                        *)
(***************************************************************************)
MustFail(G, l) ==
    \/ l.op = "addNode" /\ G.nodeCount >= MAX_NODES
    \/ /\ l.op = "addEdge"
       /\ \/ ~InRange(G, l.a)
          \/ ~InRange(G, l.b)
          \/ G.edgeCounts[l.a] >= MAX_EDGES_PER_NODE
          \/ ActiveSlots(G, l.a, l.b) # {}
    \/ l.op = "removeEdge" /\ (~InRange(G, l.a) \/ ActiveSlots(G, l.a, l.b) = {})
    \/ l.op = "removeNode" /\ ~InRange(G, l.a)

C10_FailedMutationNoChange ==
    [][ /\ MustFail(graph, last') => Failed(last')
        /\ Failed(last') => graph' = graph ]_vars

\* addEdge has just been rejected because the source's adjacency list is full.
C10_Witness ==
    /\ last.op = "addEdge"
    /\ last.ret = FALSE
    /\ InRange(graph, last.a)
    /\ InRange(graph, last.b)
    /\ graph.edgeCounts[last.a] = MAX_EDGES_PER_NODE
    /\ ActiveSlots(graph, last.a, last.b) = {}

(***************************************************************************)
(* Persistence: store calls, graph_save, damage to the file while it is    *)
(* on disk, graph_load                                                     *)
(***************************************************************************)
\* Number of store calls in one run that also saves and loads.
FileCalls == 4

NoArgs(op, ret) == [op |-> op, a |-> -1, b |-> -1, ret |-> ret]

\* A run that saves and loads makes store calls, saves the graph once, and
\* loads the file as it was written or after one damage; store calls go on
\* while the file is as it was written.
CallFile(A) ==
    /\ calls < FileCalls
    /\ file = <<>> \/ file = graph_save(saved)
    /\ A
    /\ calls' = calls + 1
    /\ UNCHANGED <<file, saved>>
    /\ UNCHANGED searchVars

Save ==
    /\ file = <<>>
    /\ file' = graph_save(graph)
    /\ saved' = graph
    /\ last' = NoArgs("save", TRUE)
    /\ UNCHANGED <<graph, calls>>
    /\ UNCHANGED searchVars

\* The file loses its tail from some byte on: k fields stay whole and p bytes
\* of the next one.
Truncate ==
    /\ file = graph_save(saved)
    /\ \E k \in 0 .. (Len(file) - 1) :
           \E p \in 0 .. (file[k + 1].n - 1) :
               file' = SubSeq(file, 1, k)
                          \o (IF p = 0 THEN <<>> ELSE <<CutField(file[k + 1], p)>>)
    /\ last' = NoArgs("truncate", TRUE)
    /\ UNCHANGED <<graph, calls, saved>>
    /\ UNCHANGED searchVars

\* another format's magic
OtherMagic == << "R", "C", "G", "R", "A", "P", "H", "2" >>

\* The first 8 bytes of the file become another format's magic.
CorruptMagic ==
    /\ file = graph_save(saved)
    /\ file' = [file EXCEPT ![1] = MagicField(OtherMagic)]
    /\ last' = NoArgs("corrupt", TRUE)
    /\ UNCHANGED <<graph, calls, saved>>
    /\ UNCHANGED searchVars

Load ==
    /\ LET r == graph_load(graph, file)
       IN  /\ graph' = r.g
           /\ last' = NoArgs("load", r.ret)
    /\ UNCHANGED <<calls, file, saved>>
    /\ UNCHANGED searchVars

NextFile ==
    \/ CallFile(AddNode)
    \/ CallFile(RemoveNode)
    \/ CallFile(AddEdge)
    \/ CallFile(RemoveEdge)
    \/ CallFile(GraphFree)
    \/ Save
    \/ Truncate
    \/ CorruptMagic
    \/ Load

SpecFile == Init /\ [][NextFile]_vars

\* The file is as graph_save wrote it.
Intact == file = graph_save(saved)

\* G and H agree on nodeCount, on every node slot, on every edge count and on
\* every slot of every node's edge list.
SameGraph(G, H) ==
    /\ G.nodeCount = H.nodeCount
    /\ G.nodes = H.nodes
    /\ G.edgeCounts = H.edgeCounts
    /\ \A i \in NodeSlots, j \in EdgeSlots :
          (i < G.nodeCount /\ j < G.edgeCounts[i]) => G.edges[i][j] = H.edges[i][j]

\* C11: loading the file graph_save wrote succeeds and gives the graph that was
\* saved: the same nodeCount, the same node in every slot (id, name, x, y,
\* active), the same edge counts and the same edge (from, to, weight, active)
\* in every slot of every edge list, inactive ones included.
C11_SaveLoadRoundTrip ==
    (last.op = "load" /\ Intact) => (last.ret = TRUE /\ SameGraph(graph, saved))

\* An intact file was loaded over another graph; the saved graph has a removed
\* node, an inactive edge inside an edge list and an active node.
C11_Witness ==
    /\ last.op = "load"
    /\ Intact
    /\ \E i \in NodeSlots : i < saved.nodeCount /\ ~saved.nodes[i].active
    /\ \E i \in NodeSlots : i < saved.nodeCount /\ saved.nodes[i].active
    /\ \E i \in NodeSlots, j \in EdgeSlots :
          i < saved.nodeCount /\ j < saved.edgeCounts[i] /\ ~saved.edges[i][j].active

\* the file starts with 8 bytes that are not the magic
BadMagic(f) == Len(f) >= 1 /\ f[1].n = 8 /\ f[1].v # MAGIC

\* the file has fewer bytes than graph_save wrote
Truncated(f) == FileBytes(f) < FileBytes(graph_save(saved))

\* C12: graph_load of a file whose magic is wrong or that ends early returns
\* failure and leaves the destination graph untouched or empty.
C12_LoadRejectsDamagedFile ==
    [][ (last'.op = "load" /\ (BadMagic(file) \/ Truncated(file)))
            => /\ last'.ret = FALSE
               /\ graph' = graph \/ graph' = graph_init ]_vars

(***************************************************************************)
(* Store claims, second part                                               *)
(***************************************************************************)
\* Every slot below nodeCount holds the node whose id is the slot index.
IdIsIndex == \A i \in NodeSlots : i < graph.nodeCount => graph.nodes[i].id = i

\* A store call: a successful addNode returns the nodeCount it found and
\* raises nodeCount by one; no addNode, removeNode, addEdge or removeEdge
\* lowers nodeCount.  graph_free starts the graph again, with nodeCount 0.
IdStep ==
    IF last'.op = "free"
    THEN graph'.nodeCount = 0
    ELSE /\ graph'.nodeCount >= graph.nodeCount
         /\ (last'.op = "addNode" /\ last'.ret # -1)
               => /\ last'.ret = graph.nodeCount
                  /\ graph'.nodeCount = graph.nodeCount + 1
         /\ last'.op # "addNode" => graph'.nodeCount = graph.nodeCount

\* C13: node ids are stable and never reused.  The graph starts with nodeCount
\* 0, a successful addNode returns the nodeCount it found and raises it by one,
\* and no removeNode, addEdge or removeEdge changes nodeCount: the k-th
\* successful addNode on a graph returns k - 1 whatever removeNode calls came
\* between, and nodeCount never decreases under these calls.
C13_IdsStableNeverReused == []IdIsIndex /\ [][IdStep]_vars

\* addNode has just returned a new id although a node with a lower id is removed.
C13_Witness ==
    /\ last.op = "addNode"
    /\ last.ret >= 1
    /\ graph.nodes[last.ret].active
    /\ \E i \in NodeSlots : i < last.ret /\ ~graph.nodes[i].active

\* A successful removeEdge(a, b): one slot of a's edge list held an active edge
\* to b, that slot is now inactive, no active edge a -> b is left, and the
\* graph is otherwise as it was.
RemoveEdgeStep ==
    (last'.op = "removeEdge" /\ last'.ret = TRUE)
        => /\ \E i \in ActiveSlots(graph, last'.a, last'.b) :
                 graph' = [graph EXCEPT !.edges[last'.a][i].active = FALSE]
           /\ ActiveSlots(graph', last'.a, last'.b) = {}
           /\ (last'.a # last'.b /\ InRange(graph, last'.b))
                 => \A i \in EdgeSlots :
                       graph'.edges[last'.b][i] = graph.edges[last'.b][i]

\* C14: removeEdge(from, to) deactivates the single matching active edge
\* from -> to and changes nothing else: the reverse edge to -> from keeps its
\* active flag and weight, and every other edge, every node and nodeCount are
\* unchanged.
C14_RemoveEdgeFrame == [][RemoveEdgeStep]_vars

\* removeEdge(a, b) has just succeeded while the reverse edge b -> a is active
\* and a holds another active edge.
C14_Witness ==
    /\ last.op = "removeEdge"
    /\ last.ret = TRUE
    /\ last.a # last.b
    /\ InRange(graph, last.b)
    /\ graph_has_edge(graph, last.b, last.a)
    /\ \E i \in EdgeSlots : i < graph.edgeCounts[last.a] /\ graph.edges[last.a][i].active

\* An addEdgeBidirectional(a, b, w) call: the graph is the one addEdge(a, b, w)
\* and then addEdge(b, a, w) leave, and the call returns true exactly when one
\* of the two returned true, which is when an edge slot was taken.
BidirectionalStep ==
    last'.op = "addEdgeBidirectional"
        => /\ \E w \in Weights :
                 LET first  == graph_add_edge(graph, last'.a, last'.b, w)
                     second == graph_add_edge(first.g, last'.b, last'.a, w)
                 IN  /\ graph' = second.g
                     /\ last'.ret = (first.ret \/ second.ret)
           /\ last'.ret = (graph'.edgeCounts # graph.edgeCounts)

\* C16: addBidirectionalEdge(from, to, w) has exactly the effect of
\* addEdge(from, to, w) followed by addEdge(to, from, w), each succeeding or
\* failing on its own, and reports success if and only if at least one of the
\* two directions was created.
C16_BidirectionalIsTwoAddEdges == [][BidirectionalStep]_vars

\* addEdgeBidirectional(a, b) has just returned true with only the direction
\* b -> a created: a -> b was rejected.
C16_Witness ==
    /\ last.op = "addEdgeBidirectional"
    /\ last.ret = TRUE
    /\ last.a # last.b
    /\ ~graph_has_edge(graph, last.a, last.b)
    /\ graph_has_edge(graph, last.b, last.a)

(***************************************************************************)
(* The scenario graph: A(0,0), B(10,0), C(10,10) with A -> B of weight 10, *)
(* B -> C of weight 10 and A -> C of weight 30, built by store calls.      *)
(* Between searches edges are removed.                                     *)
(***************************************************************************)
ScenarioGraph ==
    LET n1 == graph_add_node(graph_init, <<"A">>, ToFloat(0), ToFloat(0)).g
        n2 == graph_add_node(n1, <<"B">>, ToFloat(10), ToFloat(0)).g
        n3 == graph_add_node(n2, <<"C">>, ToFloat(10), ToFloat(10)).g
        e1 == graph_add_edge(n3, 0, 1, ToFloat(10)).g
        e2 == graph_add_edge(e1, 1, 2, ToFloat(10)).g
    IN  graph_add_edge(e2, 0, 2, ToFloat(30)).g

InitScenario ==
    /\ graph = ScenarioGraph
    /\ last = NoCall
    /\ calls = 0
    /\ NoFile
    /\ SearchIdle

\* removeEdge between two searches
ScenarioRemoveEdge ==
    /\ pc = "idle"
    /\ RemoveEdge
    /\ UNCHANGED <<calls, file, saved>>
    /\ UNCHANGED searchVars

\* main.c, app_clear_path, as app_find_path calls it before the next search:
\* the result is freed and replaced by an empty one, the start and goal shown
\* are forgotten.  The arrays of the search that returned are gone with it;
\* the statistics it wrote to app.pathStats stay as they are.  The fields of
\* the display (exploredCount, the animation flags) are not part of the state.
AstarRelease ==
    /\ pc = "done"
    /\ pc' = "idle"
    /\ startId' = -1
    /\ goalId' = -1
    /\ cfg' = astar_default_config
    /\ gScore' = <<>>
    /\ fScore' = <<>>
    /\ cameFrom' = <<>>
    /\ inClosedSet' = <<>>
    /\ inOpenSet' = <<>>
    /\ openSet' = pq_create(0)
    /\ UNCHANGED localStats                      \* app.pathStats is not touched
    /\ LET freed == path_result_free(result)    \* path_result_free(&app.currentPath)
       IN  result' = path_result_create          \* app.currentPath = path_result_create()
    /\ UNCHANGED storeVars

NextScenario ==
    \/ ScenarioRemoveEdge
    \/ AstarStart
    \/ AstarGoal
    \/ AstarVisit
    \/ AstarExhausted
    \/ AstarRelease

SpecScenario == InitScenario /\ [][NextScenario]_vars

\* search(A, C) with the Euclidean heuristic and weight 1.0 has returned
ScenarioSearchDone ==
    /\ pc = "done"
    /\ startId = 0
    /\ goalId = 2
    /\ cfg = astar_default_config

\* C15: on the scenario graph search(A, C) with the Euclidean heuristic and
\* weight 1.0 returns path [A, B, C] with cost 20; after removeEdge(A, B) on
\* that graph it returns path [A, C] with cost 30.
C15_ScenarioPaths ==
    ScenarioSearchDone =>
        /\ graph = ScenarioGraph
              => result = [nodes |-> <<0, 1, 2>>, length |-> 3,
                           totalCost |-> ToFloat(20), found |-> TRUE]
        /\ graph = graph_remove_edge(ScenarioGraph, 0, 1).g
              => result = [nodes |-> <<0, 2>>, length |-> 2,
                           totalCost |-> ToFloat(30), found |-> TRUE]

\* removeEdge(A, B) was the last store call, and search(A, C) has returned on
\* the graph it left.
C15_Witness ==
    /\ ScenarioSearchDone
    /\ last = [op |-> "removeEdge", a |-> 0, b |-> 1, ret |-> TRUE]
    /\ graph = graph_remove_edge(ScenarioGraph, 0, 1).g
    /\ result.found

(***************************************************************************)
(* Lookups on graphs of named, placed nodes.  The graphs are built by      *)
(* store calls: n nodes are added, then one may be removed.                *)
(***************************************************************************)
\* Nodes of the graphs looked into.
LookupNodes == 3

\* Names: equal up to case, one inside another, one empty.
LookupNames == { <<>>, <<"a">>, <<"b">>, <<"A", "b">>, <<"a", "b">>, <<"b", "a">> }

\* Positions: the last two are both at distance 5 of the first.
LookupPositions == { Origin, <<ToFloat(3), ToFloat(4)>>, <<ToFloat(0), ToFloat(5)>> }

\* What a node is added with: a name at the first position, or a position
\* under the name "a".
LookupNodeArgs ==
    { <<nm, Origin>> : nm \in LookupNames } \cup { <<<<"a">>, ps>> : ps \in LookupPositions }

Queries == LookupNames \cup { <<"B">>, <<"a", "b", "a">> }

Clicks == { Origin, <<ToFloat(3), ToFloat(0)>> }

Radii == { ToFloat(0), ToFloat(4), ToFloat(5), ToFloat(6) }

RECURSIVE AddLookupNodes(_, _, _)
AddLookupNodes(G, args, k) ==
    IF k > Len(args)
    THEN G
    ELSE AddLookupNodes(graph_add_node(G, args[k][1], args[k][2][1], args[k][2][2]).g,
                        args, k + 1)

InitLookup ==
    /\ \E n \in 1 .. LookupNodes :
          \E args \in [1 .. n -> LookupNodeArgs], r \in -1 .. (n - 1) :
             LET G == AddLookupNodes(graph_init, args, 1)
             IN  graph = IF r >= 0 THEN graph_remove_node(G, r).g ELSE G
    /\ last = NoCall
    /\ calls = 0
    /\ NoFile
    /\ SearchIdle

FindNodeByName ==
    /\ \E q \in Queries :
          \E r \in graph_find_node_by_name(graph, q) :
             last' = [op |-> "findNodeByName", query |-> q, ret |-> r]
    /\ UNCHANGED <<graph, calls, file, saved>>
    /\ UNCHANGED searchVars

FindNodeAtPosition ==
    /\ \E c \in Clicks, radius \in Radii :
          last' = [op |-> "findNodeAtPosition", x |-> c[1], y |-> c[2],
                   radius |-> radius,
                   ret |-> graph_find_node_at_position(graph, c[1], c[2], radius)]
    /\ UNCHANGED <<graph, calls, file, saved>>
    /\ UNCHANGED searchVars

NextLookup ==
    \/ FindNodeByName
    \/ FindNodeAtPosition

SpecLookup == InitLookup /\ [][NextLookup]_vars

ActiveNodes(G) == { i \in NodeSlots : i < G.nodeCount /\ G.nodes[i].active }

\* The square of the distance from node i to (x, y), a float.
DistSq(G, i, x, y) ==
    LET dx == FloatSub(G.nodes[i].x, x)
        dy == FloatSub(G.nodes[i].y, y)
    IN  FloatAdd(FloatMul(dx, dx), FloatMul(dy, dy))

\* The lowest id among the nodes of S closest to (x, y), -1 for no node.
Closest(G, S, x, y) ==
    IF S = {}
    THEN -1
    ELSE MinOf({ i \in S : \A k \in S : DistSq(G, i, x, y) <= DistSq(G, k, x, y) })

\* C17: findNodeNear(x, y, radius) returns the closest active node within
\* radius of (x, y), a node at distance radius included, the lowest id among
\* equally close ones, and -1 when no active node is within radius.
C17_NearestWithinRadius ==
    last.op = "findNodeAtPosition"
        => last.ret = Closest(graph,
                              { i \in ActiveNodes(graph) :
                                  DistSq(graph, i, last.x, last.y)
                                      <= FloatMul(last.radius, last.radius) },
                              last.x, last.y)

\* C17, amended: for a radius of 0 or more, findNodeNear(x, y, radius) returns
\* the closest active node at a distance below radius, the lowest id among
\* equally close ones, never an inactive node, and -1 when no active node is
\* at a distance below radius.
C17_NearestBelowRadius ==
    last.op = "findNodeAtPosition"
        => last.ret = Closest(graph,
                              { i \in ActiveNodes(graph) :
                                  DistSq(graph, i, last.x, last.y)
                                      < FloatMul(last.radius, last.radius) },
                              last.x, last.y)

\* The lookup has returned a node although a node with a higher id is as close
\* and a removed node is closer.
C17_Witness ==
    /\ last.op = "findNodeAtPosition"
    /\ last.ret >= 0
    /\ \E k \in ActiveNodes(graph) :
          /\ k > last.ret
          /\ DistSq(graph, k, last.x, last.y) = DistSq(graph, last.ret, last.x, last.y)
    /\ \E k \in NodeSlots :
          /\ k < graph.nodeCount
          /\ ~graph.nodes[k].active
          /\ DistSq(graph, k, last.x, last.y) < DistSq(graph, last.ret, last.x, last.y)

\* name contains query as a substring, case ignored
ContainsIgnoringCase(name, query) ==
    \E j \in 0 .. (Len(name) - Len(query)) :
       \A k \in 1 .. Len(query) : Lower(name[j + k]) = Lower(query[k])

\* C18: findNodeByName(query) returns the lowest-id active node whose name
\* equals the query, case ignored, if there is one; otherwise the lowest-id
\* active node whose name contains the query, case ignored; otherwise -1; for
\* every query length.
C18_FindByName ==
    last.op = "findNodeByName"
        => LET exact == { i \in ActiveNodes(graph) :
                             SameIgnoringCase(graph.nodes[i].name, last.query) }
               part  == { i \in ActiveNodes(graph) :
                             ContainsIgnoringCase(graph.nodes[i].name, last.query) }
           IN  last.ret = IF exact # {} THEN MinOf(exact)
                          ELSE IF part # {} THEN MinOf(part)
                          ELSE -1

(***************************************************************************)
(* The priority queue on its own: any sequence of pq_push, pq_pop and      *)
(* pq_decrease_priority on a queue of capacity QueueCapacity.              *)
(***************************************************************************)
QueueCapacity == 4

\* Largest fScore an entry is given.
MaxScore == 2

\* One node id more than the queue has room for.
QueueIds == 0 .. QueueCapacity

Scores == { ToFloat(v) : v \in 0 .. MaxScore }

InitQueue ==
    /\ graph = graph_init
    /\ last = NoCall
    /\ calls = 0
    /\ NoFile
    /\ pc = "idle"
    /\ startId = -1
    /\ goalId = -1
    /\ cfg = astar_default_config
    /\ gScore = <<>>
    /\ fScore = <<>>
    /\ cameFrom = <<>>
    /\ inClosedSet = <<>>
    /\ inOpenSet = <<>>
    /\ openSet = pq_create(QueueCapacity)
    /\ localStats = ZeroStats
    /\ result = path_result_create

queueFrame == <<pc, startId, goalId, cfg, gScore, fScore, cameFrom, inClosedSet,
                inOpenSet, localStats, result>>

PqPush ==
    /\ \E id \in QueueIds, f \in Scores :
          LET r == pq_push(openSet, id, f)
          IN  /\ openSet' = r.pq
              /\ last' = [op |-> "push", ret |-> r.ret, nodeId |-> id, fScore |-> f]
    /\ UNCHANGED <<graph, calls, file, saved>>
    /\ UNCHANGED queueFrame

PqPop ==
    /\ LET r == pq_pop(openSet)
       IN  /\ openSet' = r.pq
           /\ last' = [op |-> "pop", ret |-> r.ret, nodeId |-> r.nodeId,
                       fScore |-> r.fScore]
    /\ UNCHANGED <<graph, calls, file, saved>>
    /\ UNCHANGED queueFrame

PqDecreasePriority ==
    /\ \E id \in QueueIds, f \in Scores :
          /\ openSet' = pq_decrease_priority(openSet, id, f)
          /\ last' = [op |-> "decrease", ret |-> TRUE, nodeId |-> id, fScore |-> f]
    /\ UNCHANGED <<graph, calls, file, saved>>
    /\ UNCHANGED queueFrame

NextQueue ==
    \/ PqPush
    \/ PqPop
    \/ PqDecreasePriority

SpecQueue == InitQueue /\ [][NextQueue]_vars

\* C19: after every push, pop and decrease-or-insert, in any sequence, each
\* entry of the heap storage has a score less than or equal to the scores of
\* its children.
C19_HeapProperty ==
    \A i \in 1 .. (openSet.size - 1) :
       openSet.nodes[((i - 1) \div 2) + 1].fScore <= openSet.nodes[i + 1].fScore

\* A pop has just left three entries or more behind, not all of one score.
C19_Witness ==
    /\ last.op = "pop"
    /\ last.ret = TRUE
    /\ openSet.size >= 3
    /\ \E i, k \in 1 .. openSet.size : openSet.nodes[i].fScore # openSet.nodes[k].fScore

\* How often entry e is in heap storage h.
Count(h, e) == Cardinality({ k \in 1 .. Len(h) : h[k] = e })

PopStep ==
    last'.op = "pop"
        => IF openSet.size = 0
           THEN last'.ret = FALSE /\ openSet' = openSet
           ELSE LET e == [nodeId |-> last'.nodeId, fScore |-> last'.fScore]
                IN  /\ last'.ret = TRUE
                    /\ openSet'.size = openSet.size - 1
                    /\ Len(openSet'.nodes) = openSet'.size
                    /\ \A k \in 1 .. openSet.size : e.fScore <= openSet.nodes[k].fScore
                    /\ Count(openSet.nodes, e) = Count(openSet'.nodes, e) + 1
                    /\ \A k \in 1 .. openSet.size :
                          openSet.nodes[k] # e
                             => Count(openSet.nodes, openSet.nodes[k])
                                  = Count(openSet'.nodes, openSet.nodes[k])

\* C20: pop on a non-empty queue removes exactly one entry and returns an
\* entry whose score is less than or equal to the score of every entry that
\* was in the queue, and the other entries are left as they were, as a
\* multiset; pop on an empty queue fails and changes nothing.
C20_PopReturnsMinimum == [][PopStep]_vars

\* A pop has just returned an entry and left two or more behind, one of them
\* with a higher score and one with the score returned.
C20_Witness ==
    /\ last.op = "pop"
    /\ last.ret = TRUE
    /\ openSet.size >= 2
    /\ \E k \in 1 .. openSet.size : openSet.nodes[k].fScore > last.fScore
    /\ \E k \in 1 .. openSet.size : openSet.nodes[k].fScore = last.fScore


(***************************************************************************)
(* Queue claims, part 2                                                    *)
(***************************************************************************)
\* Where the heap storage holds an entry for node id.
Entries(q, id) == { k \in 1 .. q.size : q.nodes[k].nodeId = id }

OneEntryPerId(q) == \A id \in QueueIds : Cardinality(Entries(q, id)) <= 1

\* The entries of q for the nodes other than id.
OtherEntries(q, id) == { q.nodes[k] : k \in (1 .. q.size) \ Entries(q, id) }

\* Some entry of q is (id, f).
Holds(q, id, f) == \E k \in Entries(q, id) : q.nodes[k].fScore = f

DecreaseStepAny ==
    last'.op = "decrease"
        => LET id == last'.nodeId
               f  == last'.fScore
               E  == Entries(openSet, id)
           IN  /\ OneEntryPerId(openSet')
               /\ IF E = {}
                  THEN Holds(openSet', id, f)
                  ELSE IF \E k \in E : f < openSet.nodes[k].fScore
                       THEN Holds(openSet', id, f)
                       ELSE openSet' = openSet

\* C21, as stated: after every decrease-or-insert, on any queue, a strictly
\* lower score is the stored score of the node, a score that is not lower
\* leaves the queue unchanged, a node without an entry has the entry
\* (id, newScore), and no node has two entries in the queue.
C21_DecreaseOrInsert == [][DecreaseStepAny]_vars

DecreaseStep ==
    (last'.op = "decrease" /\ OneEntryPerId(openSet))
        => LET id == last'.nodeId
               f  == last'.fScore
               E  == Entries(openSet, id)
           IN  /\ OneEntryPerId(openSet')
               /\ Len(openSet'.nodes) = openSet'.size
               /\ OtherEntries(openSet', id) = OtherEntries(openSet, id)
               /\ IF E = {}
                  THEN IF openSet.size < openSet.capacity
                       THEN /\ openSet'.size = openSet.size + 1
                            /\ Holds(openSet', id, f)
                       ELSE openSet' = openSet
                  ELSE LET old == openSet.nodes[MinOf(E)].fScore
                       IN  IF f < old
                           THEN /\ openSet'.size = openSet.size
                                /\ Holds(openSet', id, f)
                           ELSE openSet' = openSet

\* C21, amended: on a queue holding at most one entry per node,
\* decrease-or-insert with a strictly lower score replaces the stored score
\* of the node's entry, with a score that is not lower leaves the queue
\* unchanged, for a node without an entry inserts one when the queue is
\* below its capacity and changes nothing when the queue is full; the
\* entries of the other nodes stay and the queue still holds at most one
\* entry per node.
C21_DecreaseOrInsertUnique == [][DecreaseStep]_vars

\* A decrease-or-insert has just been called for a node without an entry on a
\* full queue of one entry per node, and has left the node without one.
C21_Witness ==
    /\ last.op = "decrease"
    /\ OneEntryPerId(openSet)
    /\ openSet.size = openSet.capacity
    /\ Entries(openSet, last.nodeId) = {}
    /\ \E i, k \in 1 .. openSet.size : openSet.nodes[i].fScore # openSet.nodes[k].fScore


(***************************************************************************)
(* Search claims, part 2                                                   *)
(***************************************************************************)
\* Graphs of SearchNodes nodes with any edges between them, cycles included,
\* searched between any two nodes.
InitCyclic ==
    /\ \E wt \in [OrderedPairs(SearchNodes) -> SearchWeights \cup {0}] :
          \E pos \in PositionsOf(SearchNodes, NoRemoval) :
             graph = BuildGraph(pos, wt, NoRemoval)
    /\ last = NoCall
    /\ calls = 0
    /\ NoFile
    /\ SearchIdle

NextCyclic ==
    \/ AstarStart
    \/ AstarGoal
    \/ AstarVisit
    \/ AstarExhausted

\* One iteration of the main loop of astar_find_path.
LoopStep == AstarGoal \/ AstarVisit \/ AstarExhausted

\* At the head of the loop an iteration can always be made: the queue is
\* empty or it has a root to pop.
LoopEnabled == (pc = "loop") <=> ENABLED <<LoopStep>>_vars

\* The call keeps running while it is inside the main loop: weak fairness of
\* LoopStep, WF_vars(LoopStep), written with pc = "loop" for
\* ENABLED <<LoopStep>>_vars (LoopEnabled).
SpecCyclic ==
    /\ InitCyclic
    /\ [][NextCyclic]_vars
    /\ (<>[](pc = "loop") => []<><<LoopStep>>_vars)

Searching == pc = "loop" \/ (pc = "done" /\ InRange(graph, startId) /\ InRange(graph, goalId))

ClosedNodes == { n \in DOMAIN inClosedSet : inClosedSet[n] }

\* Every pop but the goal's closes a node that was open until then, so the
\* pops are of distinct nodes and are nodeCount at most.
PopsBounded ==
    Searching
        => /\ localStats.nodesExplored <= graph.nodeCount
           /\ localStats.nodesExplored
                 \in { Cardinality(ClosedNodes), Cardinality(ClosedNodes) + 1 }
           /\ pc = "loop" => localStats.nodesExplored = Cardinality(ClosedNodes)

\* A step of the loop pops one node; the scores and predecessors it changes
\* are those of nodes an active edge leads to from the one node it closes.
RelaxOnceStep ==
    pc = "loop"
        => LET closing == { n \in DOMAIN inClosedSet : inClosedSet'[n] /\ ~inClosedSet[n] }
           IN  /\ Cardinality(closing) <= 1
               /\ \A n \in ClosedNodes : inClosedSet'[n]
               /\ pc' = "loop" => /\ localStats'.nodesExplored = localStats.nodesExplored + 1
                                  /\ Cardinality(closing) = 1
               /\ \A n \in DOMAIN gScore :
                     (gScore'[n] # gScore[n] \/ cameFrom'[n] # cameFrom[n])
                        => \E p \in closing : \E i \in EdgeSlots :
                              /\ i < graph.edgeCounts[p]
                              /\ graph.edges[p][i].active
                              /\ graph.edges[p][i].to = n
                              /\ cameFrom'[n] = p

\* C22: astar_find_path returns for every graph, every start and goal in
\* range and every configuration; it pops at most nodeCount times, never the
\* same node twice, and the edges of a node are relaxed only in the one step
\* that closes it.
C22_SearchTerminates ==
    /\ []PopsBounded
    /\ [][RelaxOnceStep]_vars
    /\ (pc = "loop") ~> (pc = "done")

\* A search on a graph with a cycle has returned after popping every node.
C22_Witness ==
    /\ pc = "done"
    /\ graph.nodeCount = SearchNodes
    /\ localStats.nodesExplored = graph.nodeCount
    /\ \E a, b \in ClosedNodes :
          /\ a # b
          /\ ActiveSlots(graph, a, b) # {}
          /\ ActiveSlots(graph, b, a) # {}


\* A closed node has no entry in the queue and no open flag.
ClosedLeftQueue ==
    pc = "loop" => \A n \in ClosedNodes : Entries(openSet, n) = {} /\ ~inOpenSet[n]

\* A step of the loop leaves every closed node closed, with its g-score and
\* its predecessor.
ClosedStep ==
    pc = "loop"
        => \A n \in ClosedNodes :
              /\ inClosedSet'[n]
              /\ gScore'[n] = gScore[n]
              /\ cameFrom'[n] = cameFrom[n]
              /\ Entries(openSet', n) = {}

\* C23: once astar_find_path has closed a node, for the rest of that search
\* the node stays closed, is never in the queue again, and its g-score and
\* its predecessor never change.
C23_ClosedNeverReexamined == []ClosedLeftQueue /\ [][ClosedStep]_vars

\* Two nodes are closed and an active edge from one offers the other a lower
\* g-score than the one it was closed with.
C23_Witness ==
    /\ pc \in {"loop", "done"}
    /\ \E m \in ClosedNodes, n \in ClosedNodes :
          \E i \in ActiveSlots(graph, m, n) :
             FloatAdd(gScore[m], graph.edges[m][i].weight) < gScore[n]


(***************************************************************************)
(* reconstruct_path on its own: called for any start and goal with any     *)
(* predecessor array over ReconstructNodes nodes or fewer, cyclic and      *)
(* broken ones included.  pc = "goal" is the call at line 310.             *)
(***************************************************************************)
ReconstructNodes == 3

\* The g-scores of the call: gScore[i] = base + i.
ReconstructBases == {0, 2}

InitReconstruct ==
    /\ \E n \in 1 .. ReconstructNodes :
          /\ graph = AddNodes(graph_init, [k \in 1 .. n |-> Origin], 0)
          /\ cameFrom \in [0 .. (n - 1) -> -1 .. (n - 1)]
          /\ \E base \in ReconstructBases : gScore = [i \in 0 .. (n - 1) |-> ToFloat(base + i)]
          /\ startId \in 0 .. (n - 1)
          /\ goalId \in 0 .. (n - 1)
    /\ last = NoCall
    /\ calls = 0
    /\ NoFile
    /\ pc = "goal"
    /\ cfg = astar_default_config
    /\ fScore = <<>>
    /\ inClosedSet = <<>>
    /\ inOpenSet = <<>>
    /\ openSet = pq_create(0)
    /\ localStats = ZeroStats
    /\ result = path_result_create

ReconstructPath ==
    /\ pc = "goal"
    /\ result' = reconstruct_path(cameFrom, gScore, startId, goalId, graph.nodeCount)
    /\ pc' = "done"
    /\ UNCHANGED <<startId, goalId, cfg, gScore, fScore, cameFrom, inClosedSet,
                   inOpenSet, openSet, localStats>>
    /\ UNCHANGED storeVars

NextReconstruct == ReconstructPath

SpecReconstruct == InitReconstruct /\ [][NextReconstruct]_vars

RECURSIVE Ancestor(_, _, _)
\* The node k predecessor links back from node, -1 once the links end.
Ancestor(cf, node, k) ==
    IF k = 0
    THEN node
    ELSE LET a == Ancestor(cf, node, k - 1)
         IN  IF a = -1 THEN -1 ELSE cf[a]

\* The numbers of links after which the walk from the goal is at start,
\* having met neither start nor the end of the links before.
StartAfter ==
    { k \in 0 .. graph.nodeCount :
        /\ Ancestor(cameFrom, goalId, k) = startId
        /\ \A j \in 0 .. (k - 1) : Ancestor(cameFrom, goalId, j) \notin {startId, -1} }

\* C24: reconstruct_path returns for every predecessor array; when the walk
\* from the goal comes to start after k links it returns found = true, the
\* k + 1 nodes of the chain with start first and goal last, at most nodeCount
\* of them, and totalCost = gScore[goal]; when the walk meets -1 or makes
\* nodeCount steps without coming to start it returns the empty result.
C24_ReconstructPath ==
    pc = "done"
        => IF StartAfter = {}
           THEN result = path_result_create
           ELSE LET k == MinOf(StartAfter)
                IN  /\ result.found
                    /\ result.length = k + 1
                    /\ result.length <= graph.nodeCount
                    /\ Len(result.nodes) = k + 1
                    /\ \A j \in 0 .. k :
                          result.nodes[j + 1] = Ancestor(cameFrom, goalId, k - j)
                    /\ result.totalCost = gScore[goalId]

\* A chain through every node has been returned from a predecessor array
\* that is cyclic: the predecessor of start is the goal.
C24_Witness ==
    /\ pc = "done"
    /\ graph.nodeCount = ReconstructNodes
    /\ result.found
    /\ result.length = ReconstructNodes
    /\ cameFrom[startId] = goalId


(***************************************************************************)
(* The exploration order on its own: one call of                           *)
(* astar_get_exploration_order on a graph of the searched family, for any  *)
(* start and goal below nodeCount and any cap up to nodeCount + 1.         *)
(***************************************************************************)
ExplorationOrder(s, g, cap) ==
    LET t == astar_get_exploration_order(graph, s, g, cap)
    IN  /\ pc = "idle"
        /\ last.op = "init"
        /\ last' = [op |-> "explore", a |-> s, b |-> g, cap |-> cap,
                    ret |-> Len(t), explored |-> t]
        /\ UNCHANGED <<graph, calls, file, saved>>
        /\ UNCHANGED searchVars

ExploreAny ==
    \E s \in -1 .. (graph.nodeCount - 1), g \in -1 .. (graph.nodeCount - 1),
       cap \in 0 .. (graph.nodeCount + 1) :
        ExplorationOrder(s, g, cap)

NextExplore == ExploreAny

SpecExplore == InitSearch /\ [][NextExplore]_vars

\* C25: the count astar_get_exploration_order returns is the number of ids
\* it recorded and is at most the cap (0 for a cap of 0); the ids recorded
\* are pairwise distinct; the first is start, and is recorded whenever the
\* cap is 1 or more; every later one is the target of an active edge from
\* one recorded before it; the goal is recorded last or not at all, and it is
\* the last one whenever it is reachable from start and the count is below
\* the cap.
C25_ExplorationOrder ==
    last.op = "explore"
        => LET t == last.explored
               n == Len(t)
           IN  /\ last.ret = n
               /\ n <= last.cap
               /\ \A i, k \in 1 .. n : i # k => t[i] # t[k]
               /\ n >= 1 => t[1] = last.a
               /\ (last.a >= 0 /\ last.b >= 0 /\ last.cap >= 1) => n >= 1
               /\ \A k \in 2 .. n :
                     /\ graph.nodes[t[k]].active
                     /\ \E i \in 1 .. (k - 1) : ActiveSlots(graph, t[i], t[k]) # {}
               /\ \A k \in 1 .. n : t[k] = last.b => k = n
               /\ ( /\ last.a >= 0
                    /\ last.b >= 0
                    /\ MinCost(graph, last.a, last.b) # NoPath
                    /\ n < last.cap ) => t[n] = last.b

\* A trace of three nodes that ends at the goal below the cap, on a graph
\* with an edge back to start.
C25_Witness ==
    /\ last.op = "explore"
    /\ last.ret = 3
    /\ last.cap > 3
    /\ last.explored[3] = last.b
    /\ ActiveSlots(graph, last.explored[2], last.a) # {}


(***************************************************************************)
(* Search claims, part 3                                                   *)
(***************************************************************************)
RECURSIVE WalkCost(_, _, _)
\* The weights of the active edges that join nodes[k], nodes[k + 1], ...
WalkCost(G, nodes, k) ==
    IF k >= Len(nodes)
    THEN 0
    ELSE FloatAdd(G.edges[nodes[k]][MinOf(ActiveSlots(G, nodes[k], nodes[k + 1]))].weight,
                  WalkCost(G, nodes, k + 1))

ValidWalk(G, s, g, r) ==
    /\ r.length = Len(r.nodes)
    /\ r.length >= 1
    /\ r.nodes[1] = s
    /\ r.nodes[r.length] = g
    /\ \A i, k \in 1 .. r.length : i # k => r.nodes[i] # r.nodes[k]
    /\ \A k \in 1 .. r.length : G.nodes[r.nodes[k]].active
    /\ \A k \in 1 .. (r.length - 1) : ActiveSlots(G, r.nodes[k], r.nodes[k + 1]) # {}
    /\ r.totalCost = WalkCost(G, r.nodes, 1)

\* C26: every result of astar_find_path with found = true is a walk of the
\* graph: it starts at start and ends at goal, holds no node twice, every
\* node of it is active, every two consecutive nodes are joined by an active
\* edge, and totalCost is the sum of the weights of those edges.
C26_FoundPathIsValidWalk ==
    (pc = "done" /\ result.found) => ValidWalk(graph, startId, goalId, result)


\* Heuristic weights below and above 1.
InflatedWeights == { ToFloat(0), ToFloat(3) }

\* Every heuristic kind with the weight above 1.  The estimate is 0 for a
\* weight of 0 with any kind and for the kind ZERO with any weight: of these
\* searches, all the same, one is made.
InflatedConfigs ==
    { c \in [heuristic : Heuristics, heuristicWeight : InflatedWeights] :
        (c.heuristicWeight = 0) <=> (c.heuristic = "ZERO") }

\* A search between two different active nodes with the heuristic scaled; a
\* search from a node to itself returns at its first pop whatever the
\* configuration.
AstarStartInflated ==
    /\ pc = "idle"
    /\ \E c \in { k \in InflatedConfigs : k.heuristic \in KindsFor(graph) } :
          \E s \in 0 .. (graph.nodeCount - 1), g \in 0 .. (graph.nodeCount - 1) :
             /\ s # g
             /\ graph.nodes[s].active
             /\ graph.nodes[g].active
             /\ AstarBegin(s, g, c)

NextInflated ==
    \/ AstarStartInflated
    \/ AstarGoal
    \/ AstarVisit
    \/ AstarExhausted

SpecInflated == InitSearch /\ [][NextInflated]_vars

\* C27: for an active start and an active goal, whatever the heuristic kind
\* and the heuristic weight, astar_find_path returns found = true exactly
\* when a walk along active edges through active nodes leads from start to
\* goal.
C27_FoundIffReachable ==
    (pc = "done" /\ ValidRequest)
        => (result.found <=> MinCost(graph, startId, goalId) # NoPath)

\* A search with the heuristic weighted 3 has returned a path that costs more
\* than the cheapest one.
C27_Witness ==
    /\ pc = "done"
    /\ ValidRequest
    /\ cfg.heuristicWeight = ToFloat(3)
    /\ result.found
    /\ result.totalCost > MinCost(graph, startId, goalId)


\* The ids of the search's working arrays.
SearchIds == DOMAIN inOpenSet

\* C28: at the head of every iteration of the main loop of astar_find_path
\* a node's open flag is set exactly when the queue holds an entry for it,
\* the queue holds at most one entry per node and none for a closed node,
\* and its size is within its capacity nodeCount: no push has failed and no
\* entry popped is stale.
C28_OpenFlagsMatchQueue ==
    pc = "loop"
        => /\ openSet.capacity = graph.nodeCount
           /\ openSet.size <= openSet.capacity
           /\ Len(openSet.nodes) = openSet.size
           /\ \A k \in 1 .. openSet.size : openSet.nodes[k].nodeId \in SearchIds
           /\ \A n \in SearchIds :
                 /\ inOpenSet[n] <=> Entries(openSet, n) # {}
                 /\ Cardinality(Entries(openSet, n)) <= 1
                 /\ inClosedSet[n] => Entries(openSet, n) = {}
                 /\ Entries(openSet, n) # {}
                       => fScore[n] = openSet.nodes[MinOf(Entries(openSet, n))].fScore

\* The queue holds two entries or more, and the score of one of them was
\* lowered after it was pushed: its node is pointed to by an edge from start
\* and has another predecessor.
C28_Witness ==
    /\ pc = "loop"
    /\ openSet.size >= 2
    /\ Cardinality(ClosedNodes) >= 2
    /\ \E n \in SearchIds :
          /\ inOpenSet[n]
          /\ cameFrom[n] # startId
          /\ ActiveSlots(graph, startId, n) # {}


(***************************************************************************)
(* Store claims, part 3                                                    *)
(***************************************************************************)
\* The slots of node i that an addEdge has written.
WrittenSlots(G, i) == { j \in EdgeSlots : G.edges[i][j] # ZeroEdge }

\* A slot that was written keeps its edge as long as the graph is not freed;
\* only its active flag may change.
SlotKeptStep ==
    last'.op # "free" =>
        \A i \in NodeSlots : \A j \in WrittenSlots(graph, i) :
            /\ graph'.edges[i][j].from = graph.edges[i][j].from
            /\ graph'.edges[i][j].to = graph.edges[i][j].to
            /\ graph'.edges[i][j].weight = graph.edges[i][j].weight

\* An addEdge that succeeds writes a slot that was never written, so it
\* fails once all MAX_EDGES_PER_NODE slots of the source were written.
FreshSlotStep ==
    (last'.op = "addEdge" /\ last'.ret = TRUE)
        => /\ Cardinality(WrittenSlots(graph, last'.a)) < MAX_EDGES_PER_NODE
           /\ WrittenSlots(graph', last'.a) # WrittenSlots(graph, last'.a)

\* C29: an adjacency slot is never reused: neither removeEdge nor removeNode
\* frees capacity, and addEdge from a node fails once MAX_EDGES_PER_NODE
\* edges were added from it, active or not.
C29_SlotsNeverReused == [][SlotKeptStep /\ FreshSlotStep]_vars


(***************************************************************************)
(* The exploration order and the search on one request, as main.c makes    *)
(* them: astar_get_exploration_order with a cap of nodeCount or more, then *)
(* astar_find_path with the default configuration (Euclidean, weight 1),   *)
(* on a forward graph from the first node to the last.                     *)
(***************************************************************************)
ExploreEnds ==
    /\ graph.nodeCount > 0
    /\ \E cap \in graph.nodeCount .. (graph.nodeCount + 1) :
          ExplorationOrder(0, graph.nodeCount - 1, cap)

\* the search that follows the exploration order, on the same request
AstarTraced ==
    /\ last.op = "explore"
    /\ AstarBegin(last.a, last.b, astar_default_config)

NextTraced ==
    \/ ExploreEnds
    \/ AstarTraced
    \/ AstarGoal
    \/ AstarVisit
    \/ AstarExhausted

SpecTraced == InitForward /\ [][NextTraced]_vars

\* The k-th pop of the search is of the k-th id of the trace.
TraceStep ==
    (pc = "loop" /\ localStats'.nodesExplored = localStats.nodesExplored + 1)
        => LET k      == localStats'.nodesExplored
               popped == IF pc' = "done"
                         THEN goalId
                         ELSE CHOOSE n \in SearchIds : inClosedSet'[n] /\ ~inClosedSet[n]
           IN  /\ k <= last.ret
               /\ last.explored[k] = popped

TraceLength == pc = "done" => last.ret = localStats.nodesExplored

\* C30: with the Euclidean heuristic, weight 1 and a cap of nodeCount or
\* more, the trace of astar_get_exploration_order is, element for element,
\* the sequence of nodes astar_find_path pops on the same request, and its
\* length is the nodesExplored statistic.
C30_TraceEqualsPops == []TraceLength /\ [][TraceStep]_vars

====
